---- MODULE Spec2Model ----
(***************************************************************************)
(* Model of the news-feed ranking and preference-learning engine: the      *)
(* request handlers of the API worker (GET /api/feed, POST /api/vote,      *)
(* /api/saved, /api/impressions, /api/seed-algorithm,                      *)
(* /api/backfill-weights) and the scoring, reranking and normalising       *)
(* functions of algorithm.ts.                                              *)
(*                                                                         *)
(* Units.  Weights are kept in tenths (1.0 = 10, range 1..20); scores in   *)
(* hundredths (the code rounds every score to two decimals); the clock     *)
(* `now` in hours; publication times in minutes.  Real arithmetic is       *)
(* exact: the rounding of the JavaScript doubles is not modelled.          *)
(* SQL NULL is written 0 (all ids are AUTOINCREMENT, hence >= 1, and the   *)
(* code tests ids for truthiness).                                         *)
(*                                                                         *)
(* Assumption.  interest_weights holds no row with both category_id and    *)
(* source_id set (the handlers never write one), so its UNIQUE constraint  *)
(* over (user_id, category_id, source_id) never reports a conflict.        *)
(***************************************************************************)
EXTENDS Integers, Sequences, FiniteSets, TLC

VARIABLES
    now,          \* clock, hours
    votes,        \* votes table: per user, rows [article_id, vote] in voted_at order
    weights,      \* interest_weights table: per user, rows in rowid order
    saved,        \* saved_articles table: per user, set of article ids
    impressions,  \* article_impressions table: per user, article -> [count, last]
    seeds,        \* user_seed_articles table: per user, row or NoSeed
    resp,         \* response of the request that has just been served, or NoResp
    nEvents,      \* number of requests served so far
    served,       \* per user, the phases the feed responses so far reported
    pool,         \* candidate list handed to the rerankers (function runs)
    params,       \* reranker variant and its parameters (function runs)
    ranked,       \* output of the reranker under study
    normalized,   \* output of normalizeScoresToBellCurve on `ranked`
    settings,     \* per user, the active algorithm_profiles row (or none)
    feedCall,     \* a feed request executed statement by statement
    feedPc,       \* the await that feed request stands at
    voteCalls,    \* vote requests executed statement by statement
    profiles,     \* algorithm_profiles and user_algorithm_settings of user 1
    profileCalls, \* profile requests executed statement by statement
    magicLinks,   \* magic_links table: rows in insertion order
    userSessions, \* user_sessions table: rows in insertion order
    verifyCalls,  \* verify requests executed statement by statement
    wallClock     \* date and minute of the day (sign-in handlers)

vars == <<now, votes, weights, saved, impressions, seeds, resp, nEvents,
          served, pool, params, ranked, normalized, settings, feedCall, feedPc,
          voteCalls, profiles, profileCalls, magicLinks, userSessions,
          verifyCalls, wallClock>>

sysVars == <<now, votes, weights, saved, impressions, seeds, resp, nEvents,
            served, settings>>

rankVars == <<pool, params, ranked, normalized>>

profileVars == <<profiles, profileCalls>>

signInVars == <<magicLinks, userSessions, verifyCalls, wallClock>>

callVars == <<feedCall, feedPc, voteCalls, profileVars, signInVars>>

----------------------------------------------------------------------------
(* Bounds of the model                                                     *)

\* requests per behaviour
MaxEvents == 3

\* recent articles in the articles table
NArticles == 6

\* articles a reranker run may draw its pool from
MaxPool == 7

\* articles published in one and the same minute
MaxSameMinute == 3

\* liked (and disliked) vectors in a run of the content score
MaxLiked == 2

----------------------------------------------------------------------------
(* Program constants                                                       *)

ONBOARDING_VOTE_THRESHOLD == 10

MIN_WEIGHT == 1

MAX_WEIGHT == 20

DEFAULT_WEIGHT == 10

WEIGHT_STEP == 1

SAVE_WEIGHT == 11

SEED_CATEGORY_WEIGHT == 13

SEED_SOURCE_WEIGHT == 12

SUPPRESS_IMPRESSIONS == 2

WINDOW_HOURS == 168

DEFAULT_RECENCY_DECAY_HOURS == 24
DEFAULT_SIMILARITY_STRENGTH == 5

FORCED_SLOTS == 6

SEED_SLOTS == 3

OUTPUT_CAP == 100

LOOKAHEAD == 20

HIGH_VOLUME_SOURCE == 4

TARGET_MEAN == 50

TARGET_STDDEV == 20

----------------------------------------------------------------------------
(* Generic helpers                                                         *)

Min2(a, b) == IF a < b THEN a ELSE b

Max2(a, b) == IF a > b THEN a ELSE b

Range(s) == {s[i] : i \in 1..Len(s)}

\* the list with the elements f[1], ..., f[n], held as a tuple
List(f) == f \o <<>>

RemoveAt(s, i) ==
    List([j \in 1..(Len(s) - 1) |-> IF j < i THEN s[j] ELSE s[j + 1]])

\* Array.prototype.slice(from, to) with 0-based, end-exclusive indices
Slice(s, from, to) ==
    LET lo == Min2(from, Len(s))
        hi == Min2(Max2(to, lo), Len(s))
    IN  List([j \in 1..(hi - lo) |-> s[lo + j]])

SetMax(S) == CHOOSE x \in S : \A y \in S : y <= x

----------------------------------------------------------------------------
(* The articles table.  Articles 1..NArticles are recent; articles         *)
(* 101..110 are old ones (outside the 7-day window) on which a user may    *)
(* have voted before.  published_at is in minutes, relative to the hour 0  *)
(* of the clock; `ncat` is the number of categories in use.                *)

OldArticles == 101..110

ArticleIds == 1..NArticles

Users == {0, 1}

\* rows 201.. carry one and the same published_at (27 h 35 min before
\* hour 20)
SameMinuteArticles == 201..(200 + MaxSameMinute)

ArticleRow(a, ncat) ==
    IF a > 200
    THEN [id |-> a,
          category_id |-> ((a - 1) % ncat) + 1,
          source_id |-> ((a - 1) % 4) + 1,
          published_at |-> 0 - 455]
    ELSE IF a > 100
    THEN [id |-> a, category_id |-> 1, source_id |-> 1,
          published_at |-> 0 - 100000]
    ELSE [id |-> a,
          category_id |-> ((a - 1) % ncat) + 1,
          source_id |-> ((a - 1) % 4) + 1,
          published_at |-> 0 - ((a * 703) % 2000)]

Article(a) == ArticleRow(a, 3)

ArticleExists(a) == a \in ArticleIds \cup OldArticles

----------------------------------------------------------------------------
(* Feedback-to-weight updater (algorithm.ts)                               *)

\* clamp without its upper bound
clampLowerOnly(value, min, max) == Max2(value, min)

clamp(value, min, max) == Min2(Max2(value, min), max)

\* `obj[key] || 1.0`
WeightOr1(obj, key) ==
    IF key \in DOMAIN obj /\ obj[key] # 0 THEN obj[key] ELSE DEFAULT_WEIGHT

SetKey(obj, key, value) ==
    [k \in (DOMAIN obj) \cup {key} |-> IF k = key THEN value ELSE obj[k]]

updateWeights(vote, article, currentWeights) ==
    LET adjustment == IF vote = 1 THEN WEIGHT_STEP ELSE 0 - WEIGHT_STEP
        currentCategoryWeight ==
            WeightOr1(currentWeights.categories, article.category_id)
        currentSourceWeight ==
            WeightOr1(currentWeights.sources, article.source_id)
    IN  [categories |-> SetKey(currentWeights.categories, article.category_id,
                               clamp(currentCategoryWeight + adjustment,
                                     MIN_WEIGHT, MAX_WEIGHT)),
         sources |-> SetKey(currentWeights.sources, article.source_id,
                            clamp(currentSourceWeight + adjustment,
                                  MIN_WEIGHT, MAX_WEIGHT))]

\* Rows are visited in rowid order; a later row of a key overwrites an
\* earlier one.
interestWeightsToScoringWeights(interestWeights) ==
    LET idx == 1..Len(interestWeights)
        catKeys == {interestWeights[i].category_id : i \in idx} \ {0}
        srcKeys == {interestWeights[i].source_id : i \in idx} \ {0}
    IN  [categories |->
            [c \in catKeys |->
                interestWeights[SetMax({i \in idx :
                    interestWeights[i].category_id = c})].weight],
         sources |->
            [s \in srcKeys |->
                interestWeights[SetMax({i \in idx :
                    interestWeights[i].source_id = s})].weight]]

EmptyWeights == [categories |-> <<>>, sources |-> <<>>]

----------------------------------------------------------------------------
(* Table operations (SQLite semantics of the statements the handlers run)  *)

WeightRow(cat, src, w) == [category_id |-> cat, source_id |-> src, weight |-> w]

\* INSERT INTO interest_weights ... ON CONFLICT(user_id, category_id,
\* source_id) DO UPDATE: one of the two key columns is NULL in every row and
\* NULLs are distinct in a UNIQUE constraint, so the conflict branch is
\* never taken and the statement appends a row.
InsertWeight(rows, cat, src, w) == Append(rows, WeightRow(cat, src, w))

VoteRow(a, v) == [article_id |-> a, vote |-> v]

HasVoteRow(rows, a) == \E i \in 1..Len(rows) : rows[i].article_id = a

DeleteVote(rows, a) == SelectSeq(rows, LAMBDA r : r.article_id # a)

\* the INSERT without its ON CONFLICT clause on a table without the
\* UNIQUE(user_id, article_id) constraint
UpsertVoteAsInsert(rows, a, v) == Append(rows, VoteRow(a, v))

\* INSERT ... ON CONFLICT(user_id, article_id) DO UPDATE SET vote, voted_at = now
UpsertVote(rows, a, v) == Append(DeleteVote(rows, a), VoteRow(a, v))

\* INSERT OR IGNORE
InsertVoteOrIgnore(rows, a, v) ==
    IF HasVoteRow(rows, a) THEN rows ELSE Append(rows, VoteRow(a, v))

----------------------------------------------------------------------------
(* Exact arithmetic on naturals below 10^20, which one machine integer     *)
(* cannot hold: a wide number is the tuple of its five digits in base      *)
(* 10000, lowest digit first.                                              *)

WideFromInt(n) ==
    <<n % 10000, (n \div 10000) % 10000, n \div 100000000, 0, 0>>

WideToInt(x) == x[1] + 10000 * x[2] + 100000000 * x[3]

\* x * k for 0 <= k < 200000
WideMulSmall(x, k) ==
    LET t1 == x[1] * k
        t2 == x[2] * k + t1 \div 10000
        t3 == x[3] * k + t2 \div 10000
        t4 == x[4] * k + t3 \div 10000
        t5 == x[5] * k + t4 \div 10000
    IN  <<t1 % 10000, t2 % 10000, t3 % 10000, t4 % 10000, t5>>

WideAdd(x, y) ==
    LET t1 == x[1] + y[1]
        t2 == x[2] + y[2] + t1 \div 10000
        t3 == x[3] + y[3] + t2 \div 10000
        t4 == x[4] + y[4] + t3 \div 10000
        t5 == x[5] + y[5] + t4 \div 10000
    IN  <<t1 % 10000, t2 % 10000, t3 % 10000, t4 % 10000, t5>>

\* x * 10000
WideShift(x) == <<0, x[1], x[2], x[3], x[4]>>

\* x * m for any machine integer m >= 0
WideMulInt(x, m) ==
    WideAdd(WideMulSmall(x, m % 10000),
            WideShift(WideMulSmall(x, m \div 10000)))

\* floor(x / k) for 1 <= k < 200000: long division from the top digit
WideDivSmall(x, k) ==
    LET r5 == x[5]
        r4 == (r5 % k) * 10000 + x[4]
        r3 == (r4 % k) * 10000 + x[3]
        r2 == (r3 % k) * 10000 + x[2]
        r1 == (r2 % k) * 10000 + x[1]
    IN  <<r1 \div k, r2 \div k, r3 \div k, r4 \div k, r5 \div k>>

\* x % k for 1 <= k < 200000
WideModSmall(x, k) ==
    LET r5 == x[5]
        r4 == (r5 % k) * 10000 + x[4]
        r3 == (r4 % k) * 10000 + x[3]
        r2 == (r3 % k) * 10000 + x[2]
        r1 == (r2 % k) * 10000 + x[1]
    IN  r1 % k

WideLeq(x, y) ==
    \/ x = y
    \/ \E i \in 1..5 : x[i] < y[i] /\ \A j \in (i + 1)..5 : x[j] = y[j]

\* Math.round(n / (d1 * d2 * d3)) for a wide n >= 0 and small divisors
RoundQuotient(n, d1, d2, d3) ==
    LET d == WideMulSmall(WideMulSmall(WideFromInt(d1), d2), d3)
        m == WideAdd(WideMulSmall(n, 2), d)
    IN  WideToInt(WideDivSmall(WideDivSmall(WideDivSmall(m, 2 * d1), d2), d3))

----------------------------------------------------------------------------
(* Scoring engine (algorithm.ts).  `t` is the hour `new Date()` returns.   *)

\* hoursOld, in minutes
hoursOld(article, t) == 60 * t - article.published_at

\* Scores are returned in hundredths: Math.round(score * 100)
calculateOnboardingScore(article, seenSourceIds, seenCategoryIds, t) ==
    LET old == hoursOld(article, t)
        \* recencyMultiplier in 2880ths: 1 below 24 hours, else
        \* Math.max(0.3, 1 - hoursOld / 48)
        recency == IF old < 24 * 60 THEN 2880 ELSE Max2(864, 2880 - old)
        \* the diversity bonuses, in tenths
        catBonus == IF article.category_id \notin seenCategoryIds
                    THEN 20 ELSE 10
        srcBonus == IF article.source_id \notin seenSourceIds
                    THEN 15 ELSE 10
    IN  (2 * (100 * recency * catBonus * srcBonus) + 2880) \div (2 * 2880)

calculateAdoptionScore(article, recencyDecayHours, seenSourceIds, seenCategoryIds, w, t) ==
    LET old == hoursOld(article, t)
        decay == 60 * recencyDecayHours
        \* Math.max(0.1, 1 - hoursOld / recencyDecayHours), in units 1/decay
        recency == Max2(6 * recencyDecayHours, decay - old)
        \* the boosts and bonuses below are in tenths
        breaking == IF old < 2 * 60
                    THEN (IF article.source_id = HIGH_VOLUME_SOURCE
                          THEN 14 ELSE 18)
                    ELSE 10
        categoryWeight == WeightOr1(w.categories, article.category_id)
        sourceWeight == WeightOr1(w.sources, article.source_id)
        catBonus == IF article.category_id \notin seenCategoryIds
                    THEN 15 ELSE 10
        srcBonus == IF article.source_id \notin seenSourceIds
                    THEN 13 ELSE 10
        \* 1 + (publishMinutes / 60) * 0.08 - 0.04, in 750ths
        timeVariation == 720 + (article.published_at % 60)
        \* 1 + ((id % 1000) / 1000) * 0.04 - 0.02, in 25000ths
        idVariation == 24500 + (article.id % 1000)
        \* 100 * 100 * recency/decay * (five factors)/10^5 * the variations
        product ==
            WideMulSmall(
                WideMulSmall(
                    WideMulSmall(WideFromInt(recency * breaking),
                                 categoryWeight * sourceWeight
                                     * catBonus * srcBonus),
                    timeVariation),
                idVariation)
    IN  RoundQuotient(product, decay, 7500, 25000)

\* { ...article, score }.  `score` counts hundredths.  The seed multipliers
\* are applied to the rounded score (score *= 3.0, score *= 2.0), so the
\* double the code holds is their product with the double of
\* score / seedBoost hundredths; seedBoost keeps them for the normalizer.
WithSeedScore(article, sc, boost) ==
    [id |-> article.id, category_id |-> article.category_id,
     source_id |-> article.source_id, published_at |-> article.published_at,
     contentScore |-> article.contentScore,
     score |-> sc * boost, seedBoost |-> boost]

WithScore(article, sc) == WithSeedScore(article, sc, 1)

\* Array.prototype.sort((a, b) => b.score - a.score): stable, descending
SortByScore(s) ==
    LET n == Len(s)
        before(i, j) ==
            s[i].score > s[j].score \/ (s[i].score = s[j].score /\ i < j)
        place(i) == 1 + Cardinality({j \in 1..n : before(j, i)})
    IN  List([p \in 1..n |-> s[CHOOSE i \in 1..n : place(i) = p]])

\* The scan `if (value > best) { best = value; bestIndex = i }` started at
\* best = -1 over the indices in `idx`: first index of the greatest value
\* above -1, or 0 (the code's -1) when there is none.  Values are scaled by
\* `unit` (the value of 1.0).
BestIndex(idx, Val(_), unit) ==
    LET cands == {i \in idx : Val(i) > 0 - unit}
    IN  IF cands = {} THEN 0
        ELSE CHOOSE i \in cands :
                \A j \in cands : Val(j) < Val(i) \/ (Val(j) = Val(i) /\ i <= j)

CategoriesOf(s) == {s[i].category_id : i \in 1..Len(s)}

CountOf(s, Test(_)) == Cardinality({i \in 1..Len(s) : Test(s[i])})

----------------------------------------------------------------------------
(* Diversity rerankers (algorithm.ts).  A reranker state is the pair of    *)
(* the list built so far (diverseArticles) and the remaining articlePool.  *)

\* PHASE 1 without the `usedCategoriesInFirstSix.has(...)` skip
RECURSIVE RotationIgnoringUsed(_, _, _, _, _)
RotationIgnoringUsed(diverse, articlePool, used, slot, target) ==
    IF slot >= target \/ Len(articlePool) = 0
    THEN [diverse |-> diverse, pool |-> articlePool]
    ELSE LET bestIndex ==
                BestIndex(1..Len(articlePool),
                          LAMBDA i : articlePool[i].score, 100)
         IN  IF bestIndex = 0
             THEN [diverse |-> diverse, pool |-> articlePool]
             ELSE RotationIgnoringUsed(
                      Append(diverse, articlePool[bestIndex]),
                      RemoveAt(articlePool, bestIndex), used,
                      slot + 1, target)

\* PHASE 1 of the onboarding and adoption rerankers: one article from each
\* category not yet used, best score first, for at most `target` slots.
RECURSIVE MandatoryCategoryRotation(_, _, _, _, _)
MandatoryCategoryRotation(diverse, articlePool, used, slot, target) ==
    IF slot >= target \/ Len(articlePool) = 0
    THEN [diverse |-> diverse, pool |-> articlePool]
    ELSE LET bestIndex ==
                BestIndex({i \in 1..Len(articlePool) :
                              articlePool[i].category_id \notin used},
                          LAMBDA i : articlePool[i].score, 100)
         IN  IF bestIndex = 0
             THEN [diverse |-> diverse, pool |-> articlePool]
             ELSE MandatoryCategoryRotation(
                      Append(diverse, articlePool[bestIndex]),
                      RemoveAt(articlePool, bestIndex),
                      used \cup {articlePool[bestIndex].category_id},
                      slot + 1, target)

\* categoryCountMap: the categories in `cats` start at 0, every article of
\* diverseArticles adds one to its category.
CategoryCount(diverse, c) == CountOf(diverse, LAMBDA a : a.category_id = c)

\* the scan of one iteration without `bestIndex = 0` for an empty result
BalancedPickIndexNoFallback(diverse, articlePool, cats) ==
    LET keys == cats \cup CategoriesOf(diverse)
        leastUsedCount ==
            CHOOSE m \in {CategoryCount(diverse, c) : c \in keys} :
                \A c \in keys : m <= CategoryCount(diverse, c)
    IN  BestIndex({i \in 1..Len(articlePool) :
                      CategoryCount(diverse, articlePool[i].category_id)
                          <= leastUsedCount + 1},
                  LAMBDA i : articlePool[i].score, 100)

\* the scan of one iteration over every category, whatever its count
BalancedPickIndexAnyCategory(diverse, articlePool, cats) ==
    BestIndex(1..Len(articlePool), LAMBDA i : articlePool[i].score, 100)

\* bestIndex of one iteration of PHASE 2 of the onboarding rerankers
\* (PHASE 3 of the seeded one), 1-based
BalancedPickIndex(diverse, articlePool, cats) ==
    LET keys == cats \cup CategoriesOf(diverse)
        leastUsedCount ==
            CHOOSE m \in {CategoryCount(diverse, c) : c \in keys} :
                \A c \in keys : m <= CategoryCount(diverse, c)
        found ==
            BestIndex({i \in 1..Len(articlePool) :
                          CategoryCount(diverse, articlePool[i].category_id)
                              <= leastUsedCount + 1},
                      LAMBDA i : articlePool[i].score, 100)
    IN  IF found = 0 THEN 1 ELSE found

\* PHASE 2 of the onboarding rerankers (PHASE 3 of the seeded one)
RECURSIVE CategoryBalancedFill(_, _, _)
CategoryBalancedFill(diverse, articlePool, cats) ==
    IF Len(articlePool) = 0 \/ Len(diverse) >= OUTPUT_CAP THEN diverse
    ELSE LET bestIndex == BalancedPickIndex(diverse, articlePool, cats)
         IN  IF bestIndex = 0 THEN diverse
             ELSE CategoryBalancedFill(Append(diverse, articlePool[bestIndex]),
                                       RemoveAt(articlePool, bestIndex), cats)

\* diverseArticles, articlePool and the keys of categoryCountMap of the
\* onboarding reranker when its PHASE 2 starts
OnboardingAfterRotation(articles, t) ==
    LET scoredArticles ==
            SortByScore(List([i \in 1..Len(articles) |->
                WithScore(articles[i],
                          calculateOnboardingScore(articles[i], {}, {}, t))]))
        availableCategories == CategoriesOf(scoredArticles)
        targetFirstArticles ==
            Min2(FORCED_SLOTS, Cardinality(availableCategories))
        first == MandatoryCategoryRotation(<<>>, scoredArticles, {}, 0,
                                           targetFirstArticles)
    IN  [diverse |-> first.diverse, pool |-> first.pool,
         cats |-> availableCategories]

scoreAndSortArticlesOnboarding(articles, t) ==
    LET first == OnboardingAfterRotation(articles, t)
    IN  CategoryBalancedFill(first.diverse, first.pool, first.cats)

\* Array.prototype.findIndex, 1-based; 0 when nothing matches
FindIndex(s, Test(_)) ==
    IF \E i \in 1..Len(s) : Test(s[i])
    THEN CHOOSE i \in 1..Len(s) : Test(s[i]) /\ \A j \in 1..(i - 1) : ~Test(s[j])
    ELSE 0

\* Iteration order of `new Set(pool.map(a => a.category_id))`
RECURSIVE CategoriesInOrder(_)
CategoriesInOrder(s) ==
    IF Len(s) = 0 THEN <<>>
    ELSE LET rest == CategoriesInOrder(SubSeq(s, 1, Len(s) - 1))
             c == s[Len(s)].category_id
         IN  IF c \in Range(rest) THEN rest ELSE Append(rest, c)

\* PHASE 1 of the seeded reranker: up to three articles of the seed category
RECURSIVE SeedCategoryFirst(_, _, _, _)
SeedCategoryFirst(diverse, articlePool, seedCategoryId, i) ==
    IF i >= SEED_SLOTS \/ Len(articlePool) = 0
    THEN [diverse |-> diverse, pool |-> articlePool]
    ELSE LET seedCategoryIndex ==
                FindIndex(articlePool, LAMBDA a : a.category_id = seedCategoryId)
         IN  IF seedCategoryIndex = 0
             THEN [diverse |-> diverse, pool |-> articlePool]
             ELSE SeedCategoryFirst(
                      Append(diverse, articlePool[seedCategoryIndex]),
                      RemoveAt(articlePool, seedCategoryIndex),
                      seedCategoryId, i + 1)

\* PHASE 2 of the seeded reranker: the first article of each other category,
\* in the iteration order of availableCategories, while fewer than six
\* articles are selected.
RECURSIVE OtherCategoriesFill(_, _, _, _)
OtherCategoriesFill(diverse, articlePool, order, usedCategoriesInRotation) ==
    IF Len(order) = 0 THEN [diverse |-> diverse, pool |-> articlePool]
    ELSE LET catId == Head(order)
         IN  IF catId \in usedCategoriesInRotation
             THEN OtherCategoriesFill(diverse, articlePool, Tail(order),
                                      usedCategoriesInRotation)
             ELSE IF Len(diverse) >= FORCED_SLOTS
             THEN [diverse |-> diverse, pool |-> articlePool]
             ELSE LET catIndex ==
                         FindIndex(articlePool, LAMBDA a : a.category_id = catId)
                  IN  IF catIndex = 0
                      THEN OtherCategoriesFill(diverse, articlePool, Tail(order),
                                               usedCategoriesInRotation)
                      ELSE OtherCategoriesFill(
                               Append(diverse, articlePool[catIndex]),
                               RemoveAt(articlePool, catIndex), Tail(order),
                               usedCategoriesInRotation \cup {catId})

\* diverseArticles, articlePool and the keys of categoryCountMap of the
\* seeded reranker when its PHASE 3 starts
SeededAfterRotation(articles, seedCategoryId, seedSourceId, t) ==
    LET seedBoost(a) ==
            (IF a.category_id = seedCategoryId THEN 3 ELSE 1)
              * (IF a.source_id = seedSourceId THEN 2 ELSE 1)
        scoredArticles ==
            SortByScore(List([i \in 1..Len(articles) |->
                WithSeedScore(articles[i],
                              calculateOnboardingScore(articles[i], {}, {}, t),
                              seedBoost(articles[i]))]))
        first == SeedCategoryFirst(<<>>, scoredArticles, seedCategoryId, 0)
        availableCategories == CategoriesInOrder(first.pool)
        second == OtherCategoriesFill(first.diverse, first.pool,
                                      availableCategories, {seedCategoryId})
    IN  [diverse |-> second.diverse, pool |-> second.pool,
         cats |-> Range(availableCategories) \cup {seedCategoryId}]

scoreAndSortArticlesOnboardingWithSeed(articles, seedCategoryId, seedSourceId, t) ==
    LET second == SeededAfterRotation(articles, seedCategoryId, seedSourceId, t)
    IN  CategoryBalancedFill(second.diverse, second.pool, second.cats)

SourceCount(diverse, s) == CountOf(diverse, LAMBDA a : a.source_id = s)

\* the scan of one iteration over the whole pool instead of its first 20
\* entries
AdoptionPickIndexWholePool(diverse, articlePool) ==
    LET adjustedScore(i) ==
            articlePool[i].score
              * Max2(70, 100 - 5 * SourceCount(diverse, articlePool[i].source_id))
    IN  BestIndex(1..Len(articlePool), adjustedScore, 10000)

\* PHASE 2 of the adoption reranker: best score after the diminishing
\* returns multiplier max(0.7, 1 - 0.05 * sourceCount), among the first 20
\* pool entries.  Adjusted scores are compared in units of 1/10000.
\* bestIndex of one iteration (1-based; 0 for the code's -1)
AdoptionPickIndex(diverse, articlePool) ==
    LET adjustedScore(i) ==
            articlePool[i].score
              * Max2(70, 100 - 5 * SourceCount(diverse, articlePool[i].source_id))
    IN  BestIndex(1..Min2(LOOKAHEAD, Len(articlePool)), adjustedScore, 10000)

RECURSIVE SourceDiminishingFill(_, _)
SourceDiminishingFill(diverse, articlePool) ==
    IF Len(articlePool) = 0 \/ Len(diverse) >= OUTPUT_CAP THEN diverse
    ELSE LET bestIndex == AdoptionPickIndex(diverse, articlePool)
         IN  IF bestIndex = 0 THEN diverse
             ELSE SourceDiminishingFill(Append(diverse, articlePool[bestIndex]),
                                        RemoveAt(articlePool, bestIndex))

\* diverseArticles and articlePool of the adoption reranker when its PHASE 2
\* starts
AdoptionAfterRotation(articles, recencyDecayHours, w, t) ==
    LET scoredArticles ==
            SortByScore(List([i \in 1..Len(articles) |->
                WithScore(articles[i],
                          calculateAdoptionScore(articles[i], recencyDecayHours,
                                                 {}, {}, w, t))]))
        availableCategories == CategoriesOf(scoredArticles)
        targetFirstArticles ==
            Min2(FORCED_SLOTS, Cardinality(availableCategories))
    IN  MandatoryCategoryRotation(<<>>, scoredArticles, {}, 0,
                                  targetFirstArticles)

scoreAndSortArticlesAdoption(articles, recencyDecayHours, w, t) ==
    LET first == AdoptionAfterRotation(articles, recencyDecayHours, w, t)
    IN  SourceDiminishingFill(first.diverse, first.pool)


----------------------------------------------------------------------------
(* Score normalizer (algorithm.ts).                                        *)
(* With n scores s_i of sum S and d_i = n*s_i - S:  s_i - mean = d_i / n,  *)
(* stdDev = sqrt(Q / n^3) for Q = sum of d_i^2, so                         *)
(* 20 * zScore_i = 20 * d_i * sqrt(n / Q), and                             *)
(* Math.round(50 + 20 z) = floor((101 + 40 z) / 2) is found by comparing   *)
(* squares, without computing the root.                                    *)

RECURSIVE SumScores(_)
SumScores(s) == IF Len(s) = 0 THEN 0 ELSE Head(s).score + SumScores(Tail(s))

Abs(x) == IF x < 0 THEN 0 - x ELSE x

WideSquare(x) == WideMulInt(WideFromInt(Abs(x)), Abs(x))

RECURSIVE SumSquares(_)
SumSquares(ds) ==
    IF Len(ds) = 0 THEN WideFromInt(0)
    ELSE WideAdd(WideSquare(Head(ds)), SumSquares(Tail(ds)))

\* greatest c in lo..(hi - 1) with c^2 * q <= w, given lo^2 * q <= w < hi^2 * q
RECURSIVE FloorRoot(_, _, _, _)
FloorRoot(w, q, lo, hi) ==
    IF hi - lo <= 1 THEN lo
    ELSE LET mid == (lo + hi) \div 2
         IN  IF WideLeq(WideMulSmall(q, mid * mid), w)
             THEN FloorRoot(w, q, mid, hi)
             ELSE FloorRoot(w, q, lo, mid)

\* Math.round(TARGET_MEAN + TARGET_STDDEV * zScore) for the deviation d of
\* one of n scores, q being the sum of the squared deviations
RoundedBellScore(d, n, q) ==
    LET w == WideMulSmall(WideSquare(d), 4 * TARGET_STDDEV * TARGET_STDDEV * n)
        fl == FloorRoot(w, q, 0, 2 * TARGET_STDDEV * n + 1)
        exact == WideLeq(w, WideMulSmall(q, fl * fl))
        ce == IF exact THEN fl ELSE fl + 1
    IN  IF d >= 0 THEN (2 * TARGET_MEAN + 1 + fl) \div 2
        ELSE (2 * TARGET_MEAN + 1 - ce) \div 2

\* Scores are IEEE-754 doubles.  A batch of n equal scores is normalized in
\* double arithmetic, where sum / n need not give the score back.  Doubles
\* are counted here in half units in the last place of the rounded score.

\* 2^53 .. 2^59
BinadeLimits ==
    << <<992, 5474, 1992, 9007, 0>>, <<1984, 948, 3985, 8014, 1>>,
       <<3968, 1896, 7970, 6028, 3>>, <<7936, 3792, 5940, 2057, 7>>,
       <<5872, 7585, 1880, 4115, 14>>, <<1744, 5171, 3761, 8230, 28>>,
       <<3488, 342, 7523, 6460, 57>> >>

\* distance between neighbouring doubles at the magnitude y
DoubleSpacing(y) ==
    LET below == {j \in 1..7 : ~WideLeq(BinadeLimits[j], y)}
    IN  IF below = {} THEN 128
        ELSE 2 ^ ((CHOOSE j \in below : \A i \in below : j <= i) - 1)

\* the double nearest to N / d, ties to even
RoundToDouble(N, d) ==
    LET g == DoubleSpacing(WideDivSmall(N, d))
        quot == WideDivSmall(N, d * g)
        r == WideModSmall(N, d * g)
        up == IF 2 * r > d * g \/ (2 * r = d * g /\ quot[1] % 2 = 1)
              THEN 1 ELSE 0
    IN  WideMulSmall(WideAdd(quot, WideFromInt(up)), g)

\* e with 2^e <= k / 100 < 2^(e + 1)
BinadeOfHundredths(k) ==
    CHOOSE e \in (0 - 7)..14 :
        100 * 2 ^ (e + 7) <= 128 * k /\ 128 * k < 100 * 2 ^ (e + 8)

\* Math.round(score * 100) / 100 for k hundredths: the 53-bit significand
\* of the double nearest to k / 100, doubled
DoubleOfHundredths(k) ==
    IF k = 0 THEN WideFromInt(0)
    ELSE LET e == BinadeOfHundredths(k)
             N == WideMulSmall(WideMulSmall(WideMulSmall(
                      WideFromInt(k * 2 ^ (14 - e)), 32768), 32768), 256)
             quot == WideDivSmall(N, 100)
             r == WideModSmall(N, 100)
             up == IF r > 50 \/ (r = 50 /\ quot[1] % 2 = 1) THEN 1 ELSE 0
         IN  WideMulSmall(WideAdd(quot, WideFromInt(up)), 2)

\* the double held in `score`: the rounded score, then `score *= 3.0` and
\* `score *= 2.0` as the seed multipliers say
DoubleOfScore(k, boost) ==
    LET x == DoubleOfHundredths(k \div boost)
        x3 == IF boost % 3 = 0 THEN RoundToDouble(WideMulSmall(x, 3), 1) ELSE x
    IN  IF boost % 2 = 0 THEN WideMulSmall(x3, 2) ELSE x3

\* scores.reduce((sum, s) => sum + s, 0) over n copies of the double x,
\* `sum` being the sum so far
RECURSIVE DoubleSumOfCopies(_, _, _)
DoubleSumOfCopies(sum, x, n) ==
    IF n = 0 \/ sum[5] < 0 THEN sum
    ELSE DoubleSumOfCopies(RoundToDouble(WideAdd(sum, x), 1), x, n - 1)

\* Math.round(50 + 20 * zScore) for each of n equal scores of k hundredths.
\* mean = sum / n; when mean is the score, stdDev is 0 and the fixed score
\* is returned; otherwise every deviation is the same d # 0, stdDev is
\* |d| up to rounding, and zScore is 1 or -1 up to rounding.
EqualScoresAdjusted(k, boost, n) ==
    LET x == DoubleOfScore(k, boost)
        mean == RoundToDouble(DoubleSumOfCopies(WideFromInt(0), x, n), n)
    IN  IF mean = x THEN TARGET_MEAN
        ELSE IF WideLeq(x, mean) THEN TARGET_MEAN - TARGET_STDDEV
        ELSE TARGET_MEAN + TARGET_STDDEV

\* the spread with the adjusted score written over the raw score
WithAdjustedAsScore(a, adj) ==
    [id |-> a.id, category_id |-> a.category_id, source_id |-> a.source_id,
     published_at |-> a.published_at, contentScore |-> a.contentScore,
     score |-> adj, seedBoost |-> a.seedBoost, adjustedScore |-> adj]

WithAdjusted(a, adj) ==
    [id |-> a.id, category_id |-> a.category_id, source_id |-> a.source_id,
     published_at |-> a.published_at, contentScore |-> a.contentScore,
     score |-> a.score, seedBoost |-> a.seedBoost, adjustedScore |-> adj]

normalizeScoresToBellCurve(articles) ==
    IF Len(articles) = 0 THEN articles
    ELSE LET n == Len(articles)
             total == SumScores(articles)
             dev == List([i \in 1..n |-> n * articles[i].score - total])
             q == SumSquares(dev)
         IN  IF q = WideFromInt(0)
             THEN List([i \in 1..n |->
                     WithAdjusted(articles[i],
                         Max2(0, EqualScoresAdjusted(articles[i].score,
                                     articles[i].seedBoost, n)))])
             ELSE List([i \in 1..n |->
                     WithAdjusted(articles[i],
                                  Max2(0, RoundedBellScore(dev[i], n, q)))])

----------------------------------------------------------------------------
(* Request handlers (api.ts).  Every D1 statement is atomic; a handler is  *)
(* modelled as one step.  `resp` keeps the request just served together    *)
(* with what the handler answered.                                         *)

NoResp == [kind |-> "none"]

NoSeed == [category_id |-> 0, source_id |-> 0]

\* prefsResult: the active profile row, or none.  A recency_decay_hours of
\* 0 stands for NULL; dynamic_similarity_strength counts tenths.
NoSettings ==
    [exists |-> FALSE, recency_decay_hours |-> 0,
     dynamic_similarity_strength |-> 0]

SettingsRow(decay, strength) ==
    [exists |-> TRUE, recency_decay_hours |-> decay,
     dynamic_similarity_strength |-> strength]

NoImpression == [count |-> 0, last |-> 0]

\* articles the write requests of the model are about
TargetArticles == {1, 2}

VoteValues == {0 - 1, 0, 1}

CategorySlugs == {0, 1}

\* (offset, limit) of a feed request
Pages == {<<0, 20>>, <<1, 2>>}

\* hours that pass between two requests
TickSteps == {1, 150}

\* the two statements that store the new category and source weight
StoreVoteWeights(rows, article, newWeights) ==
    LET categoryWeight == newWeights.categories[article.category_id]
        sourceWeight == newWeights.sources[article.source_id]
    IN  InsertWeight(InsertWeight(rows, article.category_id, 0, categoryWeight),
                     0, article.source_id, sourceWeight)

VotesAfterVote(rows, a, v) ==
    IF v = 0 THEN DeleteVote(rows, a) ELSE UpsertVote(rows, a, v)

WeightsAfterVote(rows, a, v) ==
    StoreVoteWeights(rows, Article(a),
        updateWeights(v, Article(a), interestWeightsToScoringWeights(rows)))

\* POST /api/vote; userIdField = 0 stands for a body without userId
handleVote(userIdField, a, v) ==
    LET userId == IF userIdField = 0 THEN 1 ELSE userIdField
    IN  /\ nEvents < MaxEvents
        /\ ArticleExists(a)
        /\ votes' = [votes EXCEPT ![userId] = VotesAfterVote(@, a, v)]
        /\ weights' = [weights EXCEPT ![userId] = WeightsAfterVote(@, a, v)]
        /\ nEvents' = nEvents + 1
        /\ resp' = [kind |-> "vote", userId |-> userId, articleId |-> a,
                    vote |-> v]
        /\ UNCHANGED <<now, saved, impressions, seeds>>
        /\ UNCHANGED <<settings, served, rankVars, callVars>>

\* POST /api/saved
handleSaveArticle(userId, a) ==
    /\ nEvents < MaxEvents
    /\ a # 0 /\ userId # 0
    /\ saved' = [saved EXCEPT ![userId] = @ \cup {a}]
    /\ votes' = [votes EXCEPT ![userId] = InsertVoteOrIgnore(@, a, 1)]
    /\ weights' =
         IF ArticleExists(a)
         THEN [weights EXCEPT ![userId] =
                 InsertWeight(
                     InsertWeight(@, Article(a).category_id, 0, SAVE_WEIGHT),
                     0, Article(a).source_id, SAVE_WEIGHT)]
         ELSE weights
    /\ nEvents' = nEvents + 1
    /\ resp' = [kind |-> "save", userId |-> userId, articleId |-> a]
    /\ UNCHANGED <<now, impressions, seeds>>
    /\ UNCHANGED <<settings, served, rankVars, callVars>>

\* one upsert of POST /api/impressions
BumpImpression(imp, a, t) ==
    [imp EXCEPT ![a] = [count |-> @.count + 1, last |-> t]]

RECURSIVE BumpAll(_, _, _)
BumpAll(imp, articleIds, t) ==
    IF Len(articleIds) = 0 THEN imp
    ELSE BumpAll(BumpImpression(imp, Head(articleIds), t), Tail(articleIds), t)

ImpressionBatches == {<<1>>, <<2>>, <<1, 1>>, <<1, 2>>}

\* POST /api/impressions
handleTrackImpression(userId, articleIds) ==
    /\ nEvents < MaxEvents
    /\ Len(articleIds) > 0
    /\ impressions' = [impressions EXCEPT ![userId] = BumpAll(@, articleIds, now)]
    /\ nEvents' = nEvents + 1
    /\ resp' = [kind |-> "impressions", userId |-> userId,
                tracked |-> Len(articleIds)]
    /\ UNCHANGED <<now, votes, weights, saved, seeds>>
    /\ UNCHANGED <<settings, served, rankVars, callVars>>

InteractionTypes == {"upvote", "downvote", "save", "click"}

\* POST /api/seed-algorithm.  The two weight statements bind three values
\* to two placeholders: either the driver rejects the first one (lenient =
\* FALSE, the handler answers 500 after the earlier writes), or it binds
\* the leading values (the source statement then stores a NULL source).
handleSeedAlgorithm(userId, interactionType, a, lenient) ==
    LET categoryId == Article(a).category_id
        sourceId == Article(a).source_id
        boosts == interactionType \in {"upvote", "save", "click"}
    IN  /\ nEvents < MaxEvents
        /\ seeds' = [seeds EXCEPT ![userId] =
                        [category_id |-> categoryId, source_id |-> sourceId]]
        /\ votes' = IF interactionType \in {"upvote", "downvote"}
                    THEN [votes EXCEPT ![userId] =
                            UpsertVote(@, a, IF interactionType = "upvote"
                                             THEN 1 ELSE 0 - 1)]
                    ELSE votes
        /\ saved' = IF interactionType = "save"
                    THEN [saved EXCEPT ![userId] = @ \cup {a}]
                    ELSE saved
        /\ weights' = IF boosts /\ lenient
                      THEN [weights EXCEPT ![userId] =
                              InsertWeight(
                                  InsertWeight(@, categoryId, 0,
                                               SEED_CATEGORY_WEIGHT),
                                  0, 0, SEED_SOURCE_WEIGHT)]
                      ELSE weights
        /\ nEvents' = nEvents + 1
        /\ resp' = [kind |-> "seed", userId |-> userId, articleId |-> a,
                    success |-> (~boosts \/ lenient)]
        /\ UNCHANGED <<now, impressions>>
        /\ UNCHANGED <<settings, served, rankVars, callVars>>

\* the replay loop of the backfill
RECURSIVE ReplayVotes(_, _)
ReplayVotes(voteRows, w) ==
    IF Len(voteRows) = 0 THEN w
    ELSE ReplayVotes(Tail(voteRows),
                     updateWeights(Head(voteRows).vote,
                                   Article(Head(voteRows).article_id), w))

\* Object.entries of a record with integer keys: ascending key order
RECURSIVE EntriesAscending(_)
EntriesAscending(obj) ==
    IF DOMAIN obj = {} THEN <<>>
    ELSE LET k == SetMax(DOMAIN obj)
         IN  Append(EntriesAscending([j \in (DOMAIN obj) \ {k} |-> obj[j]]),
                    <<k, obj[k]>>)

\* DELETE FROM interest_weights, then one INSERT per category and source
BackfillRows(voteRows) ==
    LET w == ReplayVotes(voteRows, EmptyWeights)
        categoryEntries == EntriesAscending(w.categories)
        sourceEntries == EntriesAscending(w.sources)
    IN  [i \in 1..Len(categoryEntries) |->
            WeightRow(categoryEntries[i][1], 0, categoryEntries[i][2])]
        \o [i \in 1..Len(sourceEntries) |->
            WeightRow(0, sourceEntries[i][1], sourceEntries[i][2])]

\* POST /api/backfill-weights
handleBackfillWeights(userId) ==
    /\ nEvents < MaxEvents
    /\ userId # 0
    /\ weights' = IF Len(votes[userId]) = 0 THEN weights
                  ELSE [weights EXCEPT ![userId] = BackfillRows(votes[userId])]
    /\ nEvents' = nEvents + 1
    /\ resp' = [kind |-> "backfill", userId |-> userId,
                votesProcessed |-> Len(votes[userId])]
    /\ UNCHANGED <<now, votes, saved, impressions, seeds>>
    /\ UNCHANGED <<settings, served, rankVars, callVars>>

\* passage of time between requests
Tick(d) ==
    /\ nEvents < MaxEvents
    /\ now' = now + d
    /\ nEvents' = nEvents + 1
    /\ resp' = NoResp
    /\ UNCHANGED <<votes, weights, saved, impressions, seeds>>
    /\ UNCHANGED <<settings, served, rankVars, callVars>>

----------------------------------------------------------------------------
(* Content similarity (embeddings.ts).  Vectors are integer tuples with at *)
(* most one non-zero component, so that norms are integers, cosines are    *)
(* -1, 0 or 1 and the double arithmetic of the code is exact on them.      *)
(* Cosines and content scores count hundredths.                            *)

NoVector == <<>>

\* the vector the index holds under an article id, if any; of the old
\* articles only 101 and 102 were ever embedded
StoredVector(a) ==
    LET k == a % 6
    IN  IF a > 102 /\ a <= 200 THEN NoVector
        ELSE IF k = 1 THEN <<1, 0>>
        ELSE IF k = 2 THEN <<0, 2>>
        ELSE IF k = 3 THEN NoVector
        ELSE IF k = 4 THEN <<0 - 3, 0>>
        ELSE IF k = 5 THEN <<0, 0 - 1>>
        ELSE <<2, 0>>

\* article_embeddings has a row with embedding_generated = 1
HasEmbeddingRow(a) == StoredVector(a) # NoVector

RECURSIVE DotProduct(_, _)
DotProduct(a, b) ==
    IF Len(a) = 0 THEN 0
    ELSE Head(a) * Head(b) + DotProduct(Tail(a), Tail(b))

\* Math.sqrt
IntegerRoot(n) == CHOOSE r \in 0..n : r * r <= n /\ (r + 1) * (r + 1) > n

cosineSimilarity(a, b) ==
    IF Len(a) # Len(b) THEN 0
    ELSE LET normA == IntegerRoot(DotProduct(a, a))
             normB == IntegerRoot(DotProduct(b, b))
         IN  IF normA = 0 \/ normB = 0 THEN 0
             ELSE (100 * DotProduct(a, b)) \div (normA * normB)

RECURSIVE TotalSimilarity(_, _)
TotalSimilarity(articleEmbedding, embeddings) ==
    IF Len(embeddings) = 0 THEN 0
    ELSE cosineSimilarity(articleEmbedding, Head(embeddings))
           + TotalSimilarity(articleEmbedding, Tail(embeddings))

\* Math.round(score * 100) / 100 of
\*   avgLikedSimilarity * maxBoost - avgDislikedSimilarity * maxPenalty,
\* strengthMultiplier counting tenths
calculateDirectContentScore(articleEmbedding, likedEmbeddings, dislikedEmbeddings, strengthMultiplier) ==
    LET maxBoost == 10 + strengthMultiplier * 9
        nLiked == Max2(1, Len(likedEmbeddings))
        nDisliked == Max2(1, Len(dislikedEmbeddings))
        num == maxBoost
                 * (TotalSimilarity(articleEmbedding, likedEmbeddings) * nDisliked
                    - TotalSimilarity(articleEmbedding, dislikedEmbeddings) * nLiked)
        den == nLiked * nDisliked
    IN  (2 * num + den) \div (2 * den)

\* env.VECTORIZE.getByIds when the index answers: the vectors it holds
\* for the ids asked for
RECURSIVE getByIds(_)
getByIds(ids) ==
    IF ids = {} THEN <<>>
    ELSE LET a == CHOOSE x \in ids : \A y \in ids : x <= y
         IN  (IF StoredVector(a) = NoVector THEN <<>>
              ELSE <<[id |-> a, values |-> StoredVector(a)]>>)
               \o getByIds(ids \ {a})

EmbeddingValues(embeddings) ==
    List([i \in 1..Len(embeddings) |-> embeddings[i].values])

\* SELECT article_id FROM votes WHERE vote = 1 UNION SELECT article_id FROM
\* saved_articles
LikedArticleIds(voteRows, savedIds) ==
    {voteRows[i].article_id : i \in {j \in 1..Len(voteRows) : voteRows[j].vote = 1}}
        \cup savedIds

DislikedArticleIds(voteRows) ==
    {voteRows[i].article_id : i \in {j \in 1..Len(voteRows) : voteRows[j].vote = 0 - 1}}

\* the scoring loop with a score of 1 for a candidate the index returned no
\* vector for
ContentScoreOfMissingAsOne(a, likedEmbeddings, dislikedEmbeddings, allArticleEmbeddings, strength) ==
    LET found == {i \in 1..Len(allArticleEmbeddings) :
                     allArticleEmbeddings[i].id = a}
    IN  IF found = {} THEN 100
        ELSE calculateDirectContentScore(
                 allArticleEmbeddings[CHOOSE i \in found : TRUE].values,
                 likedEmbeddings, dislikedEmbeddings, strength)

\* contentScoreMap.get(id) || 0 after the scoring loop, given the values
\* of the liked and the disliked vectors and the vectors the index returned
\* for the candidate ids
ContentScoreOf(a, likedEmbeddings, dislikedEmbeddings, allArticleEmbeddings, strength) ==
    LET found == {i \in 1..Len(allArticleEmbeddings) :
                     allArticleEmbeddings[i].id = a}
    IN  IF found = {} THEN 0
        ELSE calculateDirectContentScore(
                 allArticleEmbeddings[CHOOSE i \in found : TRUE].values,
                 likedEmbeddings, dislikedEmbeddings, strength)

\* { ...a, contentScore }
WithContentScore(a, c) ==
    [id |-> a.id, category_id |-> a.category_id, source_id |-> a.source_id,
     published_at |-> a.published_at, contentScore |-> c]

----------------------------------------------------------------------------
(* GET /api/feed                                                           *)

isLoggedOut(userId) == userId = 0

\* the onboarding test with the threshold itself included
isOnboardingInclusive(userId, voteCount) ==
    ~isLoggedOut(userId) /\ voteCount <= ONBOARDING_VOTE_THRESHOLD

isOnboarding(userId, voteCount) ==
    ~isLoggedOut(userId) /\ voteCount < ONBOARDING_VOTE_THRESHOLD

isAdoption(userId, voteCount) ==
    ~isLoggedOut(userId) /\ voteCount >= ONBOARDING_VOTE_THRESHOLD

\* the branch of handleGetFeed that builds the response
SelectedPhase(userId, voteCount) ==
    IF isLoggedOut(userId) THEN "LOGGED_OUT"
    ELSE IF isOnboarding(userId, voteCount) THEN "ONBOARDING"
    ELSE IF isAdoption(userId, voteCount) THEN "ADOPTION"
    ELSE "FAILED"

\* the impression clause with the counter compared one too high
ImpressionSuppressedAfterThree(imp, a, t) ==
    /\ imp[a].count > SUPPRESS_IMPRESSIONS
    /\ imp[a].last > t - WINDOW_HOURS

\* the NOT EXISTS clause on article_impressions
ImpressionSuppressed(imp, a, t) ==
    /\ imp[a].count >= SUPPRESS_IMPRESSIONS
    /\ imp[a].last > t - WINDOW_HOURS

\* the NOT EXISTS clause on votes
Downvoted(voteRows, a) ==
    \E i \in 1..Len(voteRows) :
        voteRows[i].article_id = a /\ voteRows[i].vote = 0 - 1

\* the candidate query without its NOT EXISTS clause on votes
IsCandidateKeepingDownvoted(userId, a, categorySlug, t) ==
    /\ Article(a).published_at > 60 * (t - WINDOW_HOURS)
    /\ ~ImpressionSuppressed(impressions[userId], a, t)
    /\ (categorySlug # 0 => Article(a).category_id = categorySlug)

\* WHERE clause of the candidate query; category 0 stands for "no filter"
IsCandidate(userId, a, categorySlug, t) ==
    /\ Article(a).published_at > 60 * (t - WINDOW_HOURS)
    /\ ~ImpressionSuppressed(impressions[userId], a, t)
    /\ ~Downvoted(votes[userId], a)
    /\ (categorySlug # 0 => Article(a).category_id = categorySlug)

\* ORDER BY published_at DESC (rows of equal date in id order)
RECURSIVE NewestFirst(_, _)
NewestFirst(S, ncat) ==
    IF S = {} THEN <<>>
    ELSE LET a == CHOOSE x \in S : \A y \in S :
                     \/ ArticleRow(y, ncat).published_at
                            < ArticleRow(x, ncat).published_at
                     \/ (ArticleRow(y, ncat).published_at
                            = ArticleRow(x, ncat).published_at /\ x <= y)
         IN  <<ArticleRow(a, ncat)>> \o NewestFirst(S \ {a}, ncat)

CandidateArticles(userId, categorySlug, t) ==
    LET rows == NewestFirst({a \in ArticleIds :
                                IsCandidate(userId, a, categorySlug, t)}, 3)
    IN  Slice(rows, 0, IF categorySlug = 0 THEN 1000 ELSE 100)

\* votedResult selects article_id only, so `.vote` is undefined and the
\* `|| 0` applies.
Enriched(a) ==
    [id |-> a.id, contentScore |-> a.contentScore, score |-> a.score,
     adjustedScore |-> a.adjustedScore, userVote |-> 0]

\* (prefsResult?.recency_decay_hours as number) || 24
recencyDecayHours(prefsResult) ==
    IF prefsResult.exists /\ prefsResult.recency_decay_hours # 0
    THEN prefsResult.recency_decay_hours
    ELSE DEFAULT_RECENCY_DECAY_HOURS

\* (prefsResult?.dynamic_similarity_strength as number) ?? 0.5
similarityStrength(prefsResult) ==
    IF prefsResult.exists THEN prefsResult.dynamic_similarity_strength
    ELSE DEFAULT_SIMILARITY_STRENGTH

\* what the content scoring block holds when no vector was fetched
NothingFetched == [liked |-> <<>>, disliked |-> <<>>, candidates |-> <<>>]

\* the content scoring block runs
ContentScoringApplies(userId) ==
    /\ ~isLoggedOut(userId)
    /\ LikedArticleIds(votes[userId], saved[userId]) \cup DislikedArticleIds(votes[userId]) # {}

\* ids of the candidates the third lookup asks the index for
CandidateIdsWithEmbedding(articles) ==
    {articles[i].id : i \in {j \in 1..Len(articles) : HasEmbeddingRow(articles[j].id)}}

\* the vectors the content scoring block gets when every call to the index
\* answers
FetchedEmbeddings(userId, articles) ==
    IF ~ContentScoringApplies(userId) THEN NothingFetched
    ELSE LET liked == getByIds(LikedArticleIds(votes[userId], saved[userId]))
             disliked == getByIds(DislikedArticleIds(votes[userId]))
         IN  [liked |-> liked, disliked |-> disliked,
              candidates |-> IF Len(liked) = 0 /\ Len(disliked) = 0 THEN <<>>
                             ELSE getByIds(CandidateIdsWithEmbedding(articles))]

\* articles.map(a => ({ ...a, contentScore: contentScoreMap.get(a.id) || 0 }))
WithContentScores(userId, articles, fetched) ==
    LET likedEmbeddingValues == EmbeddingValues(fetched.liked)
        dislikedEmbeddingValues == EmbeddingValues(fetched.disliked)
        strength == similarityStrength(settings[userId])
    IN  IF Len(fetched.candidates) = 0
        THEN List([i \in 1..Len(articles) |-> WithContentScore(articles[i], 0)])
        ELSE List([i \in 1..Len(articles) |->
                 WithContentScore(articles[i],
                     ContentScoreOf(articles[i].id, likedEmbeddingValues,
                                    dislikedEmbeddingValues,
                                    fetched.candidates, strength))])

\* the ranking for every phase with the adoption reranker
PhaseRankingAlwaysAdoption(phase, seed, articles, decayHours, w, t) ==
    scoreAndSortArticlesAdoption(articles, decayHours, w, t)

\* the three branches of the algorithm selection: `seed` is the seed row of
\* the user (or none), `w` the scoring weights read from interest_weights
PhaseRanking(phase, seed, articles, decayHours, w, t) ==
    IF phase = "LOGGED_OUT" THEN scoreAndSortArticlesOnboarding(articles, t)
    ELSE IF phase = "ONBOARDING"
    THEN (IF seed # NoSeed
          THEN scoreAndSortArticlesOnboardingWithSeed(articles,
                   seed.category_id, seed.source_id, t)
          ELSE scoreAndSortArticlesOnboarding(articles, t))
    ELSE scoreAndSortArticlesAdoption(articles, decayHours, w, t)

RankedForPhase(phase, userId, articles, t) ==
    PhaseRanking(phase, seeds[userId], articles,
                 recencyDecayHours(settings[userId]),
                 interestWeightsToScoringWeights(weights[userId]), t)

\* the page test with the end of the list counted as one more page
hasMoreAtEnd(offset, limit, total) == offset + limit <= total

\* hasMore: offset + limit < <ranked list>.length
hasMore(offset, limit, total) == offset + limit < total

\* the response, given the rows of the candidate query and the vectors the
\* content scoring block fetched
FeedResponseWith(userId, categorySlug, offset, limit, rows, fetched) ==
    LET voteCount == Len(votes[userId])
        phase == SelectedPhase(userId, voteCount)
        articles == WithContentScores(userId, rows, fetched)
        rankedArticles == RankedForPhase(phase, userId, articles, now)
        normalizedArticles == normalizeScoresToBellCurve(rankedArticles)
        topArticles == Slice(normalizedArticles, offset, offset + limit)
    IN  IF phase = "FAILED"
        THEN [kind |-> "error", userId |-> userId, voteCount |-> voteCount,
              phase |-> phase, category |-> categorySlug,
              offset |-> offset, limit |-> limit,
              articles |-> <<>>, total |-> 0, hasMore |-> FALSE]
        ELSE [kind |-> "feed", userId |-> userId, voteCount |-> voteCount,
              phase |-> phase, category |-> categorySlug,
              offset |-> offset, limit |-> limit,
              articles |-> List([i \in 1..Len(topArticles) |->
                                    Enriched(topArticles[i])]),
              total |-> Len(rankedArticles),
              hasMore |-> hasMore(offset, limit, Len(rankedArticles))]

FeedResponse(userId, categorySlug, offset, limit) ==
    LET rows == CandidateArticles(userId, categorySlug, now)
    IN  FeedResponseWith(userId, categorySlug, offset, limit, rows,
                         FetchedEmbeddings(userId, rows))

handleGetFeed(userId, categorySlug, offset, limit) ==
    /\ nEvents < MaxEvents
    /\ resp' = FeedResponse(userId, categorySlug, offset, limit)
    /\ nEvents' = nEvents + 1
    /\ served' = [served EXCEPT ![userId] =
                     @ \cup {SelectedPhase(userId, Len(votes[userId]))}]
    /\ UNCHANGED <<now, votes, weights, saved, impressions, seeds>>
    /\ UNCHANGED <<settings, rankVars, callVars>>

----------------------------------------------------------------------------
(* Specification of the request handlers                                   *)

RECURSIVE EarlierVotes(_, _)
EarlierVotes(k, v) ==
    IF k = 0 THEN [votes |-> <<>>, weights |-> <<>>]
    ELSE LET before == EarlierVotes(k - 1, v)
         IN  [votes |-> VotesAfterVote(before.votes, 100 + k, v),
              weights |-> WeightsAfterVote(before.weights, 100 + k, v)]

\* nine upvotes on old articles, then an upvote on article 2
TenVotes ==
    LET before == EarlierVotes(9, 1)
    IN  [votes |-> VotesAfterVote(before.votes, 2, 1),
         weights |-> WeightsAfterVote(before.weights, 2, 1)]

\* A user starts without rows, or has voted through POST /api/vote on nine
\* old articles (all up or all down), or on these and on article 2.
InitialHistories ==
    {EarlierVotes(0, 1), EarlierVotes(9, 1), EarlierVotes(9, 0 - 1), TenVotes}

RankIdle ==
    /\ pool = <<>>
    /\ params = [variant |-> "none", done |-> FALSE]
    /\ ranked = <<>>
    /\ normalized = <<>>

NoFeedCall == [userId |-> 0]

ProfilesIdle ==
    /\ profiles = [rows |-> <<>>, legacy |-> NoSettings, lastId |-> 0]
    /\ profileCalls = <<>>

SignInIdle ==
    /\ magicLinks = <<>>
    /\ userSessions = <<>>
    /\ verifyCalls = <<>>
    /\ wallClock = [day |-> 0, minute |-> 0]

CallsIdle ==
    /\ feedCall = NoFeedCall
    /\ feedPc = "none"
    /\ voteCalls = <<>>
    /\ ProfilesIdle
    /\ SignInIdle

Init ==
    /\ now = 0
    /\ \E h \in InitialHistories :
          /\ votes = [u \in Users |-> IF u = 0 THEN <<>> ELSE h.votes]
          /\ weights = [u \in Users |-> IF u = 0 THEN <<>> ELSE h.weights]
    /\ saved = [u \in Users |-> {}]
    /\ impressions = [u \in Users |-> [a \in ArticleIds |-> NoImpression]]
    /\ seeds = [u \in Users |-> NoSeed]
    /\ resp = NoResp
    /\ nEvents = 0
    /\ served = [u \in Users |-> {}]
    /\ settings = [u \in Users |-> NoSettings]
    /\ RankIdle
    /\ CallsIdle

Vote == \E u \in Users, a \in TargetArticles, v \in VoteValues : handleVote(u, a, v)

Save == \E u \in Users, a \in TargetArticles : handleSaveArticle(u, a)

TrackImpression == \E ids \in ImpressionBatches : handleTrackImpression(1, ids)

Seed ==
    \E ty \in InteractionTypes, lenient \in BOOLEAN :
        handleSeedAlgorithm(1, ty, 1, lenient)

Backfill == \E u \in Users : handleBackfillWeights(u)

Time == \E d \in TickSteps : Tick(d)

\* (userId, category, page) of a feed request: every combination for the
\* signed-in user, the unfiltered first page for the anonymous one
FeedRequests ==
    {<<1, c, pg>> : c \in CategorySlugs, pg \in Pages} \cup {<<0, 0, <<0, 20>>>>}

GetFeed ==
    \E rq \in FeedRequests : handleGetFeed(rq[1], rq[2], rq[3][1], rq[3][2])

Next == Vote \/ Save \/ TrackImpression \/ Seed \/ Backfill \/ Time \/ GetFeed

Spec == Init /\ [][Next]_vars

----------------------------------------------------------------------------
(* Specification of the ranking functions: a run picks a candidate pool,   *)
(* applies one of the three rerankers to it and then the normalizer.       *)

\* numbers of categories the articles of a pool are spread over
PoolCategoryCounts == {2, 3, 6}

\* hours at which a pool is ranked
RankClocks == {0, 20}

\* (seedCategoryId, seedSourceId); category 9 and source 9 have no article
SeedChoices == {<<1, 1>>, <<2, 9>>, <<9, 2>>}

WeightChoices ==
    {EmptyWeights,
     [categories |-> (1 :> 20 @@ 2 :> 1), sources |-> (1 :> 5 @@ 4 :> 20)]}

\* candidate lists as the feed query returns them: newest first
\* content scores of the pool articles: 0, 22, -11, 11, -22, 0, 22, ...
PoolContentScore(a) == (((a * 7) % 5) - 2) * 1100

PoolArticles(S, ncat) ==
    LET rows == NewestFirst(S, ncat)
    IN  List([i \in 1..Len(rows) |->
                 WithContentScore(rows[i], PoolContentScore(rows[i].id))])

Pools ==
    {PoolArticles(S, ncat) : S \in SUBSET (1..MaxPool) \cup SUBSET SameMinuteArticles, ncat \in PoolCategoryCounts}

SystemIdle ==
    /\ now = 0
    /\ votes = [u \in Users |-> <<>>]
    /\ weights = [u \in Users |-> <<>>]
    /\ saved = [u \in Users |-> {}]
    /\ impressions = [u \in Users |-> [a \in ArticleIds |-> NoImpression]]
    /\ seeds = [u \in Users |-> NoSeed]
    /\ resp = NoResp
    /\ nEvents = 0
    /\ served = [u \in Users |-> {}]
    /\ settings = [u \in Users |-> NoSettings]

InitRank ==
    /\ SystemIdle
    /\ CallsIdle
    /\ pool \in Pools
    /\ params = [variant |-> "none", done |-> FALSE]
    /\ ranked = <<>>
    /\ normalized = <<>>

RankOnboarding ==
    \E t \in RankClocks, w \in WeightChoices :
        /\ params.variant = "none"
        /\ params' = [variant |-> "onboarding", done |-> FALSE, t |-> t,
                      seed |-> NoSeed,
                      recencyDecayHours |-> DEFAULT_RECENCY_DECAY_HOURS,
                      weights |-> w]
        /\ ranked' = PhaseRanking("ONBOARDING", NoSeed, pool,
                                  DEFAULT_RECENCY_DECAY_HOURS, w, t)
        /\ UNCHANGED <<pool, normalized>>
        /\ UNCHANGED <<sysVars, callVars>>

RankSeeded ==
    \E t \in RankClocks, seed \in SeedChoices, w \in WeightChoices :
        /\ params.variant = "none"
        /\ params' = [variant |-> "seeded", done |-> FALSE, t |-> t,
                      seed |-> [category_id |-> seed[1], source_id |-> seed[2]],
                      recencyDecayHours |-> DEFAULT_RECENCY_DECAY_HOURS,
                      weights |-> w]
        /\ ranked' = PhaseRanking("ONBOARDING",
                                  [category_id |-> seed[1], source_id |-> seed[2]],
                                  pool, DEFAULT_RECENCY_DECAY_HOURS, w, t)
        /\ UNCHANGED <<pool, normalized>>
        /\ UNCHANGED <<sysVars, callVars>>

RankAdoption ==
    \E t \in RankClocks, w \in WeightChoices :
        /\ params.variant = "none"
        /\ params' = [variant |-> "adoption", done |-> FALSE, t |-> t,
                      seed |-> NoSeed,
                      recencyDecayHours |-> DEFAULT_RECENCY_DECAY_HOURS,
                      weights |-> w]
        /\ ranked' = PhaseRanking("ADOPTION", NoSeed, pool,
                                  DEFAULT_RECENCY_DECAY_HOURS, w, t)
        /\ UNCHANGED <<pool, normalized>>
        /\ UNCHANGED <<sysVars, callVars>>

Normalize ==
    /\ params.variant # "none"
    /\ ~params.done
    /\ params' = [params EXCEPT !.done = TRUE]
    /\ normalized' = normalizeScoresToBellCurve(ranked)
    /\ UNCHANGED <<pool, ranked>>
    /\ UNCHANGED <<sysVars, callVars>>

NextRank == RankOnboarding \/ RankSeeded \/ RankAdoption \/ Normalize

SpecRank == InitRank /\ [][NextRank]_vars

----------------------------------------------------------------------------
(* Specification of the selection loops of the three rerankers, one        *)
(* iteration of the final while loop per step.  A run starts where the     *)
(* forced slots leave diverseArticles and articlePool, for the candidate   *)
(* pools of the ranking specification, for a list of 30 candidates whose   *)
(* score-sorted pool is longer than the 20-entry scan of the adoption      *)
(* reranker, and for a list of more than 100 candidates.                   *)

\* 27 candidates of source 1 and category 1, then 3 of source 2 and
\* category 2, all of the same minute
LongCandidates ==
    List([i \in 1..30 |->
        WithContentScore(ArticleRow(IF i <= 27 THEN 197 + 4 * i
                                    ELSE 198 + 4 * (i - 27), 2), 0)])

\* category 2 weighted 0.9
LongWeights == [categories |-> (2 :> 9), sources |-> <<>>]

\* two candidates more than the rerankers return
CapCandidates ==
    List([i \in 1..(OUTPUT_CAP + 2) |-> WithContentScore(ArticleRow(i, 6), 0)])

\* (articles, now, weights) of the adoption runs
AdoptionInputs ==
    {<<p, t, w>> : p \in Pools, t \in RankClocks, w \in WeightChoices}
        \cup {<<LongCandidates, 20, LongWeights>>,
              <<CapCandidates, 20, EmptyWeights>>}

\* (articles, now) of the onboarding runs
OnboardingInputs ==
    {<<p, t>> : p \in Pools, t \in RankClocks} \cup {<<CapCandidates, 20>>}

\* (articles, now, seed) of the seeded runs
SeededInputs ==
    {<<p, t, seed>> : p \in Pools, t \in RankClocks, seed \in SeedChoices}
        \cup {<<CapCandidates, 20, <<1, 1>>>>}

NoIteration == [diverse |-> <<>>, pool |-> <<>>]

\* the loop starts with diverseArticles and articlePool of `first`
LoopStarts(reranker, articles, first, cats) ==
    /\ ranked = first.diverse
    /\ pool = first.pool
    /\ params = [variant |-> "pick", reranker |-> reranker,
                 articles |-> articles, cats |-> cats, done |-> FALSE,
                 before |-> NoIteration, bestIndex |-> 0]

InitPick ==
    /\ SystemIdle
    /\ CallsIdle
    /\ normalized = <<>>
    /\ \/ \E in \in AdoptionInputs :
             LoopStarts("adoption", in[1],
                        AdoptionAfterRotation(in[1], DEFAULT_RECENCY_DECAY_HOURS,
                                              in[3], in[2]), {})
       \/ \E in \in OnboardingInputs :
             LET first == OnboardingAfterRotation(in[1], in[2])
             IN  LoopStarts("onboarding", in[1], first, first.cats)
       \/ \E in \in SeededInputs :
             LET second == SeededAfterRotation(in[1], in[3][1], in[3][2], in[2])
             IN  LoopStarts("seeded", in[1], second, second.cats)

\* the end of an iteration: splice and push, or break
IterationEnds(bestIndex) ==
    /\ IF bestIndex = 0
       THEN /\ params' = [params EXCEPT !.done = TRUE]
            /\ UNCHANGED <<pool, ranked>>
       ELSE /\ ranked' = Append(ranked, pool[bestIndex])
            /\ pool' = RemoveAt(pool, bestIndex)
            /\ params' = [params EXCEPT
                             !.before = [diverse |-> ranked, pool |-> pool],
                             !.bestIndex = bestIndex]
    /\ UNCHANGED normalized
    /\ UNCHANGED <<sysVars, callVars>>

\* `while (articlePool.length > 0 && diverseArticles.length < 100)`
LoopContinues ==
    /\ params.variant = "pick"
    /\ ~params.done
    /\ Len(pool) > 0
    /\ Len(ranked) < OUTPUT_CAP

\* one iteration of PHASE 2 of the adoption reranker
AdoptionIteration ==
    /\ LoopContinues
    /\ params.reranker = "adoption"
    /\ IterationEnds(AdoptionPickIndex(ranked, pool))

\* one iteration of PHASE 2 of the onboarding reranker or of PHASE 3 of the
\* seeded one
BalancedIteration ==
    /\ LoopContinues
    /\ params.reranker \in {"onboarding", "seeded"}
    /\ IterationEnds(BalancedPickIndex(ranked, pool, params.cats))

NextPick == AdoptionIteration \/ BalancedIteration

SpecPick == InitPick /\ [][NextPick]_vars

----------------------------------------------------------------------------
(* Specification of updateWeights on the JavaScript heap: a ScoringWeights *)
(* object holds references to its categories object and its sources        *)
(* object, and assignments go through references.                          *)

\* objects: ScoringWeights objects (their two references); maps: the
\* categories and sources objects
HeapWith(categories, sources) ==
    [objects |-> <<[categories |-> 1, sources |-> 2]>>,
     maps |-> <<categories, sources>>]

\* the value behind a ScoringWeights reference
Deref(heap, ref) ==
    [categories |-> heap.maps[heap.objects[ref].categories],
     sources |-> heap.maps[heap.objects[ref].sources]]

\* `{ ...currentWeights }`: a new object sharing the nested objects
SpreadClone(heap, ref) ==
    [heap |-> [objects |-> Append(heap.objects, heap.objects[ref]),
               maps |-> heap.maps],
     ref |-> Len(heap.objects) + 1]

\* JSON.parse(JSON.stringify(currentWeights)): a new object with new nested
\* objects of the same keys and numbers
JsonClone(heap, ref) ==
    [heap |-> [objects |-> Append(heap.objects,
                               [categories |-> Len(heap.maps) + 1,
                                sources |-> Len(heap.maps) + 2]),
               maps |-> heap.maps \o <<heap.maps[heap.objects[ref].categories],
                                        heap.maps[heap.objects[ref].sources]>>],
     ref |-> Len(heap.objects) + 1]

\* newWeights.categories[...] = ...; newWeights.sources[...] = ...
AssignWeights(heap, ref, value) ==
    LET afterCategories ==
            [heap.maps EXCEPT ![heap.objects[ref].categories] = value.categories]
    IN  [objects |-> heap.objects,
         maps |-> [afterCategories EXCEPT
                      ![heap.objects[ref].sources] = value.sources]]

\* weights a store row can hold: 0.1, 1.0, 1.9, 2.0
StoredWeightValues == {1, 10, 19, 20}

WeightMaps ==
    UNION {[keys -> StoredWeightValues] : keys \in SUBSET {1, 2}}

VotedArticles == {ArticleRow(a, 2) : a \in 1..4}

InitWeights ==
    /\ SystemIdle
    /\ CallsIdle
    /\ pool = <<>>
    /\ ranked = <<>>
    /\ normalized = <<>>
    /\ \E categories \in WeightMaps, sources \in WeightMaps, article \in VotedArticles, vote \in {1, 0 - 1} :
          params = [variant |-> "weights", done |-> FALSE,
                    vote |-> vote, article |-> article,
                    given |-> [categories |-> categories, sources |-> sources],
                    heap |-> HeapWith(categories, sources),
                    currentWeights |-> 1, newWeights |-> 0]

UpdateWeights ==
    /\ params.variant = "weights"
    /\ ~params.done
    /\ LET clone == JsonClone(params.heap, params.currentWeights)
           value == updateWeights(params.vote, params.article,
                                  Deref(clone.heap, clone.ref))
       IN  params' = [params EXCEPT
                         !.done = TRUE,
                         !.heap = AssignWeights(clone.heap, clone.ref, value),
                         !.newWeights = clone.ref]
    /\ UNCHANGED <<pool, ranked, normalized>>
    /\ UNCHANGED <<sysVars, callVars>>

NextWeights == UpdateWeights

SpecWeights == InitWeights /\ [][NextWeights]_vars

----------------------------------------------------------------------------
(* Specification of the content score: calculateDirectContentScore runs on *)
(* one candidate vector, the liked and the disliked vectors and a strength *)
(* as the settings tables may hold it (profiles store it unvalidated).     *)

\* vectors of the index, a zero vector and a vector of another dimension
Vectors == {<<1, 0>>, <<0, 2>>, <<0 - 3, 0>>, <<0, 0 - 1>>, <<0, 0>>, <<1, 0, 0>>}

\* liked or disliked vectors of one user
VectorLists ==
    UNION {[1..n -> {<<1, 0>>, <<0, 2>>, <<0 - 3, 0>>, <<0, 0 - 1>>}] : n \in 0..MaxLiked}

\* dynamic_similarity_strength in tenths: 0.0, 0.5, 1.0, and 1.5
Strengths == {0, 5, 10, 15}

InitContent ==
    /\ SystemIdle
    /\ CallsIdle
    /\ pool = <<>>
    /\ ranked = <<>>
    /\ normalized = <<>>
    /\ \E v \in Vectors, liked \in VectorLists, disliked \in VectorLists, s \in Strengths :
          params = [variant |-> "content", done |-> FALSE,
                    articleEmbedding |-> v, likedEmbeddings |-> liked,
                    dislikedEmbeddings |-> disliked,
                    strengthMultiplier |-> s, score |-> 0]

ScoreContent ==
    /\ params.variant = "content"
    /\ ~params.done
    /\ params' = [params EXCEPT
                     !.done = TRUE,
                     !.score = calculateDirectContentScore(
                                   params.articleEmbedding,
                                   params.likedEmbeddings,
                                   params.dislikedEmbeddings,
                                   params.strengthMultiplier)]
    /\ UNCHANGED <<pool, ranked, normalized>>
    /\ UNCHANGED <<sysVars, callVars>>

NextContent == ScoreContent

SpecContent == InitContent /\ [][NextContent]_vars

----------------------------------------------------------------------------
(* Specification of concurrent votes: two POST /api/vote requests of user  *)
(* 1 run statement by statement.  Every `await` of handleVote on the       *)
(* database is one step, and the steps of the two requests interleave in   *)
(* any order.  The articles voted on have their embedding rows, so the     *)
(* embedding block at the end of the handler writes nothing.               *)

\* articles 1 and 4 share category 1, articles 1 and 5 share source 1
RaceArticles == {1, 4, 5}

RaceVotes == {1, 0 - 1}

VoteCallIds == {1, 2}

\* a request not yet received.  startRows, order and overlapped are history
\* variables: the weight rows when the request arrived, the arrival order,
\* and whether the other request was in progress at any time meanwhile.
IdleVoteCall(a, v) ==
    [pc |-> "idle", articleId |-> a, vote |-> v,
     categoryWeight |-> 0, sourceWeight |-> 0,
     startRows |-> <<>>, order |-> 0, overlapped |-> FALSE]

InProgress(call) == call.pc \notin {"idle", "done"}

\* updateWeights on the defaults instead of the rows read
NewVoteWeightsFromDefaults(rows, a, v) ==
    updateWeights(v, Article(a), EmptyWeights)

\* currentWeights and newWeights of handleVote, from the rows the SELECT
\* returned
NewVoteWeights(rows, a, v) ==
    updateWeights(v, Article(a), interestWeightsToScoringWeights(rows))

InitRace ==
    /\ now = 0
    /\ \E h \in InitialHistories :
          /\ votes = [u \in Users |-> IF u = 0 THEN <<>> ELSE h.votes]
          /\ weights = [u \in Users |-> IF u = 0 THEN <<>> ELSE h.weights]
    /\ saved = [u \in Users |-> {}]
    /\ impressions = [u \in Users |-> [a \in ArticleIds |-> NoImpression]]
    /\ seeds = [u \in Users |-> NoSeed]
    /\ resp = NoResp
    /\ nEvents = 0
    /\ served = [u \in Users |-> {}]
    /\ settings = [u \in Users |-> NoSettings]
    /\ RankIdle
    /\ feedCall = NoFeedCall
    /\ feedPc = "none"
    /\ ProfilesIdle
    /\ SignInIdle
    /\ \E a1 \in RaceArticles, a2 \in RaceArticles, v1 \in RaceVotes, v2 \in RaceVotes :
          voteCalls = <<IdleVoteCall(a1, v1), IdleVoteCall(a2, v2)>>

RaceUnchanged ==
    UNCHANGED <<now, saved, impressions, seeds, nEvents, served, settings,
                rankVars, feedCall, feedPc, profileVars, signInVars>>

\* the request arrives and SELECT * FROM articles finds the article
VoteArrives(p) ==
    LET other == voteCalls[3 - p]
    IN  /\ voteCalls[p].pc = "idle"
        /\ ArticleExists(voteCalls[p].articleId)
        /\ voteCalls' =
              [voteCalls EXCEPT
                 ![p] = [@ EXCEPT !.pc = "vote",
                                  !.startRows = weights[1],
                                  !.order = IF other.pc = "idle" THEN 1 ELSE 2,
                                  !.overlapped = InProgress(other)],
                 ![3 - p] = [@ EXCEPT !.overlapped = @ \/ InProgress(other)]]
        /\ UNCHANGED <<votes, weights, resp>>
        /\ RaceUnchanged

\* DELETE FROM votes, or INSERT INTO votes ... ON CONFLICT DO UPDATE
VoteStored(p) ==
    /\ voteCalls[p].pc = "vote"
    /\ votes' = [votes EXCEPT ![1] =
                    VotesAfterVote(@, voteCalls[p].articleId, voteCalls[p].vote)]
    /\ voteCalls' = [voteCalls EXCEPT ![p] = [@ EXCEPT !.pc = "read"]]
    /\ UNCHANGED <<weights, resp>>
    /\ RaceUnchanged

\* SELECT * FROM interest_weights, then updateWeights in memory
WeightsRead(p) ==
    LET newWeights == NewVoteWeights(weights[1], voteCalls[p].articleId,
                                     voteCalls[p].vote)
        article == Article(voteCalls[p].articleId)
    IN  /\ voteCalls[p].pc = "read"
        /\ voteCalls' =
              [voteCalls EXCEPT
                 ![p] = [@ EXCEPT
                           !.pc = "category",
                           !.categoryWeight =
                               newWeights.categories[article.category_id],
                           !.sourceWeight =
                               newWeights.sources[article.source_id]]]
        /\ UNCHANGED <<votes, weights, resp>>
        /\ RaceUnchanged

\* INSERT INTO interest_weights (category row)
CategoryWeightStored(p) ==
    /\ voteCalls[p].pc = "category"
    /\ weights' = [weights EXCEPT ![1] =
                      InsertWeight(@, Article(voteCalls[p].articleId).category_id,
                                   0, voteCalls[p].categoryWeight)]
    /\ voteCalls' = [voteCalls EXCEPT ![p] = [@ EXCEPT !.pc = "source"]]
    /\ UNCHANGED <<votes, resp>>
    /\ RaceUnchanged

\* INSERT INTO interest_weights (source row), then the response
SourceWeightStored(p) ==
    /\ voteCalls[p].pc = "source"
    /\ weights' = [weights EXCEPT ![1] =
                      InsertWeight(@, 0, Article(voteCalls[p].articleId).source_id,
                                   voteCalls[p].sourceWeight)]
    /\ voteCalls' = [voteCalls EXCEPT ![p] = [@ EXCEPT !.pc = "done"]]
    /\ resp' = [kind |-> "vote", userId |-> 1,
                articleId |-> voteCalls[p].articleId,
                vote |-> voteCalls[p].vote]
    /\ UNCHANGED votes
    /\ RaceUnchanged

NextRace ==
    \E p \in VoteCallIds :
        \/ VoteArrives(p)
        \/ VoteStored(p)
        \/ WeightsRead(p)
        \/ CategoryWeightStored(p)
        \/ SourceWeightStored(p)

SpecRace == InitRace /\ [][NextRace]_vars

----------------------------------------------------------------------------
(* Specification of one feed request, await by await.  feedCall holds the  *)
(* locals of handleGetFeed; the calls to env.VECTORIZE.getByIds are the    *)
(* only steps whose completion is up to the index.  A call answers with    *)
(* vectors, answers with nothing, or rejects; `hung` names the call, if    *)
(* any, whose promise never settles.                                       *)

ProviderOutcomes == {"vectors", "nothing", "error"}

HungCalls == {"none", "liked", "disliked", "candidates"}

FeedClocks == {0, 400}

FeedPages == Pages \cup {<<0, 0>>}

FeedSettings == {NoSettings, SettingsRow(48, 10), SettingsRow(0, 15)}

FeedSeeds == {NoSeed, [category_id |-> 1, source_id |-> 2]}

FeedCallRequests ==
    {<<1, c, pg>> : c \in CategorySlugs, pg \in FeedPages} \cup {<<0, 0, <<0, 20>>>>}

IdleFeedCall(userId, categorySlug, offset, limit, hung) ==
    [userId |-> userId, category |-> categorySlug,
     offset |-> offset, limit |-> limit, hung |-> hung,
     rows |-> <<>>, liked |-> <<>>, disliked |-> <<>>, candidates |-> <<>>,
     caught |-> FALSE, nothing |-> {}]

\* what the loop `if (batchResult) ....push(...batchResult)` collects when
\* the promise resolves
ProviderAnswer(ids, outcome) ==
    IF outcome = "vectors" THEN getByIds(ids) ELSE <<>>

\* where the content scoring block goes once the liked and the disliked
\* vectors are in: the status query on article_embeddings, then the third
\* lookup if any candidate has a row
AfterUserVectors(liked, disliked, rows) ==
    IF Len(liked) = 0 /\ Len(disliked) = 0 THEN "rank"
    ELSE IF CandidateIdsWithEmbedding(rows) = {} THEN "rank"
    ELSE "candidates"

InitFeed ==
    /\ now \in FeedClocks
    /\ \E h \in InitialHistories :
          /\ votes = [u \in Users |-> IF u = 0 THEN <<>> ELSE h.votes]
          /\ weights = [u \in Users |-> IF u = 0 THEN <<>> ELSE h.weights]
    /\ saved = [u \in Users |-> {}]
    /\ impressions = [u \in Users |-> [a \in ArticleIds |-> NoImpression]]
    /\ \E sd \in FeedSeeds :
          seeds = [u \in Users |-> IF u = 0 THEN NoSeed ELSE sd]
    /\ resp = NoResp
    /\ nEvents = 0
    /\ served = [u \in Users |-> {}]
    /\ \E st \in FeedSettings :
          settings = [u \in Users |-> IF u = 0 THEN NoSettings ELSE st]
    /\ RankIdle
    /\ voteCalls = <<>>
    /\ ProfilesIdle
    /\ SignInIdle
    /\ \E rq \in FeedCallRequests, hung \in HungCalls :
          feedCall = IdleFeedCall(rq[1], rq[2], rq[3][1], rq[3][2], hung)
    /\ feedPc = "idle"

FeedUnchanged ==
    UNCHANGED <<now, votes, weights, saved, impressions, seeds, nEvents,
                settings, rankVars, voteCalls, profileVars, signInVars>>

FeedPcs == {"idle", "liked", "disliked", "candidates", "rank", "done"}

\* the request stands at a statement that can run: at an await on the
\* database, or at an await on the index whose promise settles
FeedCanStep ==
    \/ feedPc \in {"idle", "rank"}
    \/ feedPc \in {"liked", "disliked", "candidates"} /\ feedCall.hung # feedPc

\* the runtime resumes the request
FeedResumed == FeedCanStep /\ feedPc' \in FeedPcs

\* the request arrives; the settings, weights, votes, liked, disliked and
\* candidate queries run
FeedArrives ==
    LET userId == feedCall.userId
        rows == CandidateArticles(userId, feedCall.category, now)
    IN  /\ feedPc = "idle"
        /\ feedCall' = [feedCall EXCEPT !.rows = rows]
        /\ feedPc' = IF ~ContentScoringApplies(userId) THEN "rank"
                     ELSE IF LikedArticleIds(votes[userId], saved[userId]) # {}
                     THEN "liked"
                     ELSE "disliked"
        /\ UNCHANGED <<resp, served>>
        /\ FeedUnchanged

\* the lookup of the liked vectors settles
LikedAnswered(outcome) ==
    LET userId == feedCall.userId
        liked == ProviderAnswer(LikedArticleIds(votes[userId], saved[userId]),
                                outcome)
    IN  /\ feedPc = "liked"
        /\ feedCall.hung # "liked"
        /\ feedCall' =
              IF outcome = "error"
              THEN [feedCall EXCEPT !.caught = TRUE]
              ELSE [feedCall EXCEPT
                      !.liked = liked,
                      !.nothing = IF outcome = "nothing" THEN @ \cup {"liked"} ELSE @]
        /\ feedPc' = IF outcome = "error" THEN "rank"
                     ELSE IF DislikedArticleIds(votes[userId]) # {}
                     THEN "disliked"
                     ELSE AfterUserVectors(liked, <<>>, feedCall.rows)
        /\ UNCHANGED <<resp, served>>
        /\ FeedUnchanged

\* the lookup of the disliked vectors settles
DislikedAnswered(outcome) ==
    LET userId == feedCall.userId
        disliked == ProviderAnswer(DislikedArticleIds(votes[userId]), outcome)
    IN  /\ feedPc = "disliked"
        /\ feedCall.hung # "disliked"
        /\ feedCall' =
              IF outcome = "error"
              THEN [feedCall EXCEPT !.caught = TRUE]
              ELSE [feedCall EXCEPT
                      !.disliked = disliked,
                      !.nothing = IF outcome = "nothing" THEN @ \cup {"disliked"} ELSE @]
        /\ feedPc' = IF outcome = "error" THEN "rank"
                     ELSE AfterUserVectors(feedCall.liked, disliked,
                                           feedCall.rows)
        /\ UNCHANGED <<resp, served>>
        /\ FeedUnchanged

\* Promise.all over the lookups of the candidate vectors settles
CandidatesAnswered(outcome) ==
    /\ feedPc = "candidates"
    /\ feedCall.hung # "candidates"
    /\ feedCall' =
          IF outcome = "error"
          THEN [feedCall EXCEPT !.caught = TRUE]
          ELSE [feedCall EXCEPT
                  !.candidates =
                      ProviderAnswer(CandidateIdsWithEmbedding(feedCall.rows),
                                     outcome),
                  !.nothing = IF outcome = "nothing" THEN @ \cup {"candidates"} ELSE @]
    /\ feedPc' = "rank"
    /\ UNCHANGED <<resp, served>>
    /\ FeedUnchanged

\* content scores attached, algorithm selected, page cut, response sent
FeedAnswered ==
    LET userId == feedCall.userId
    IN  /\ feedPc = "rank"
        /\ resp' = FeedResponseWith(userId, feedCall.category, feedCall.offset,
                       feedCall.limit, feedCall.rows,
                       [liked |-> feedCall.liked,
                        disliked |-> feedCall.disliked,
                        candidates |-> feedCall.candidates])
        /\ served' = [served EXCEPT ![userId] =
                         @ \cup {SelectedPhase(userId, Len(votes[userId]))}]
        /\ feedPc' = "done"
        /\ UNCHANGED feedCall
        /\ FeedUnchanged

ProviderSettles ==
    \E outcome \in ProviderOutcomes :
        \/ LikedAnswered(outcome)
        \/ DislikedAnswered(outcome)
        \/ CandidatesAnswered(outcome)

NextFeed == FeedArrives \/ ProviderSettles \/ FeedAnswered

SpecFeed == InitFeed /\ [][NextFeed]_vars

\* the runtime resumes a request whose await has settled: a request that can
\* run a statement does not stand still forever
SpecFeedFair == SpecFeed /\ WF_feedPc(FeedResumed)

----------------------------------------------------------------------------
(* Settings profiles of user 1 (embeddings.ts, /api/preferences and        *)
(* /api/profiles).  source_diversity_multiplier and                        *)
(* dynamic_similarity_strength count tenths, exploration_factor counts     *)
(* hundredths.  A request carries a valid session token of user 1.         *)
(* Activate and delete run several statements; two such requests may be   *)
(* in progress at once and their statements interleave.                    *)

MaxProfiles == 3

\* a body field that is absent (`undefined`)
Undefined == 0 - 1000

VALID_DECAY_HOURS == {12, 24, 48, 72}

ProfileRow(id, name, active, default, decay, diversity, strength, exploration) ==
    [id |-> id, name |-> name, is_active |-> active, is_default |-> default,
     recency_decay_hours |-> decay,
     source_diversity_multiplier |-> diversity,
     dynamic_similarity_strength |-> strength,
     exploration_factor |-> exploration]

\* a row of user_algorithm_settings
LegacyRow(decay, diversity, strength, exploration) ==
    [exists |-> TRUE, recency_decay_hours |-> decay,
     source_diversity_multiplier |-> diversity,
     dynamic_similarity_strength |-> strength,
     exploration_factor |-> exploration]

SettingsBody(decay, diversity, strength, exploration) ==
    [recency_decay_hours |-> decay,
     source_diversity_multiplier |-> diversity,
     dynamic_similarity_strength |-> strength,
     exploration_factor |-> exploration]

\* request bodies: no field, every field at the upper end of its range,
\* every field out of range, and only the exploration factor out of range
SettingsBodies ==
    {SettingsBody(Undefined, Undefined, Undefined, Undefined),
     SettingsBody(48, 10, 10, 50),
     SettingsBody(7, 11, 15, 60),
     SettingsBody(Undefined, Undefined, Undefined, 51)}

ProfileNames == {1, 2}

\* ids a request may name: the rows that may exist and one that never does
ProfileIds == 1..(MaxProfiles + 1)

ProfileCallIds == {1, 2}

IdleProfileCall == [pc |-> "idle", profileId |-> 0, is_active |-> FALSE]

\* `value ?? fallback`
OrElse(value, fallback) == IF value = Undefined THEN fallback ELSE value

\* the four checks of handleSavePreferences
BodyRejected(body) ==
    \/ body.recency_decay_hours # Undefined
         /\ body.recency_decay_hours \notin VALID_DECAY_HOURS
    \/ body.source_diversity_multiplier # Undefined
         /\ (body.source_diversity_multiplier < 0
               \/ body.source_diversity_multiplier > 10)
    \/ body.dynamic_similarity_strength # Undefined
         /\ (body.dynamic_similarity_strength < 0
               \/ body.dynamic_similarity_strength > 10)
    \/ body.exploration_factor # Undefined
         /\ (body.exploration_factor < 0 \/ body.exploration_factor > 50)

HasUpdates(body) ==
    \/ body.recency_decay_hours # Undefined
    \/ body.source_diversity_multiplier # Undefined
    \/ body.dynamic_similarity_strength # Undefined
    \/ body.exploration_factor # Undefined

\* SET <updateClause>: the fields of the body that are present
WithUpdates(row, body) ==
    [row EXCEPT
       !.recency_decay_hours = OrElse(body.recency_decay_hours, @),
       !.source_diversity_multiplier = OrElse(body.source_diversity_multiplier, @),
       !.dynamic_similarity_strength = OrElse(body.dynamic_similarity_strength, @),
       !.exploration_factor = OrElse(body.exploration_factor, @)]

ActiveRows(rows) == SelectSeq(rows, LAMBDA r : r.is_active)

HasProfile(rows, id) == \E i \in 1..Len(rows) : rows[i].id = id

ProfileOf(rows, id) == rows[CHOOSE i \in 1..Len(rows) : rows[i].id = id]

\* the row the settings queries of handleGetFeed return: the active profile
\* (the first one in rowid order), else the user_algorithm_settings row
StoredSettings(p) ==
    IF Len(ActiveRows(p.rows)) > 0 THEN [exists |-> TRUE] @@ Head(ActiveRows(p.rows))
    ELSE p.legacy

PrefsResult(p) ==
    LET row == StoredSettings(p)
    IN  IF row.exists
        THEN SettingsRow(row.recency_decay_hours, row.dynamic_similarity_strength)
        ELSE NoSettings

\* UPDATE algorithm_profiles SET ... WHERE user_id = ? AND is_active = 1,
\* then the upsert into user_algorithm_settings if no row changed
SavedPreferences(p, body) ==
    IF Len(ActiveRows(p.rows)) > 0
    THEN [p EXCEPT !.rows = List([i \in 1..Len(p.rows) |->
                       IF p.rows[i].is_active THEN WithUpdates(p.rows[i], body)
                       ELSE p.rows[i]])]
    ELSE IF p.legacy.exists
    THEN [p EXCEPT !.legacy = WithUpdates(p.legacy, body)]
    ELSE [p EXCEPT !.legacy = LegacyRow(24, 5, 5, 10)]

\* INSERT INTO algorithm_profiles: is_active and is_default take their
\* column default 0
CreatedProfile(p, name, body) ==
    [p EXCEPT
       !.lastId = @ + 1,
       !.rows = Append(@,
           ProfileRow(p.lastId + 1, name, FALSE, FALSE,
               IF body.recency_decay_hours \in {Undefined, 0}
               THEN 24 ELSE body.recency_decay_hours,
               OrElse(body.source_diversity_multiplier, 5),
               OrElse(body.dynamic_similarity_strength, 5),
               OrElse(body.exploration_factor, 10)))]

\* UPDATE algorithm_profiles SET ... WHERE id = ? AND user_id = ?
UpdatedProfile(p, id, body) ==
    [p EXCEPT !.rows = List([i \in 1..Len(p.rows) |->
                  IF p.rows[i].id = id THEN WithUpdates(p.rows[i], body)
                  ELSE p.rows[i]])]

ProfileStatement(p2) ==
    /\ profiles' = p2
    /\ settings' = [settings EXCEPT ![1] = PrefsResult(p2)]

ProfilesUnchanged ==
    UNCHANGED <<now, votes, weights, saved, impressions, seeds, served,
                rankVars, feedCall, feedPc, voteCalls, signInVars>>

ProfileRequestStarts ==
    /\ nEvents < MaxEvents
    /\ nEvents' = nEvents + 1

handleSavePreferences(body) ==
    /\ ProfileRequestStarts
    /\ IF BodyRejected(body)
       THEN /\ resp' = [kind |-> "error", status |-> 400]
            /\ UNCHANGED <<profiles, settings>>
       ELSE /\ resp' = [kind |-> "preferences", status |-> 200]
            /\ IF HasUpdates(body)
               THEN ProfileStatement(SavedPreferences(profiles, body))
               ELSE UNCHANGED <<profiles, settings>>
    /\ UNCHANGED profileCalls
    /\ ProfilesUnchanged

handleCreateProfile(name, body) ==
    /\ ProfileRequestStarts
    /\ profiles.lastId < MaxProfiles
    /\ IF \E i \in 1..Len(profiles.rows) : profiles.rows[i].name = name
       THEN /\ resp' = [kind |-> "error", status |-> 400]
            /\ UNCHANGED <<profiles, settings>>
       ELSE /\ resp' = [kind |-> "profile", status |-> 200]
            /\ ProfileStatement(CreatedProfile(profiles, name, body))
    /\ UNCHANGED profileCalls
    /\ ProfilesUnchanged

handleUpdateProfile(id, body) ==
    /\ ProfileRequestStarts
    /\ resp' = [kind |-> "profile", status |-> 200]
    /\ IF HasUpdates(body)
       THEN ProfileStatement(UpdatedProfile(profiles, id, body))
       ELSE UNCHANGED <<profiles, settings>>
    /\ UNCHANGED profileCalls
    /\ ProfilesUnchanged

\* handleActivateProfile, first statement: UPDATE ... SET is_active = 0
\* WHERE user_id = ?
ActivateDeactivatesAll(c, id) ==
    /\ ProfileRequestStarts
    /\ profileCalls[c].pc = "idle"
    /\ ProfileStatement([profiles EXCEPT !.rows =
           List([i \in 1..Len(profiles.rows) |->
                    [profiles.rows[i] EXCEPT !.is_active = FALSE]])])
    /\ profileCalls' = [profileCalls EXCEPT ![c] =
                           [pc |-> "activate", profileId |-> id,
                            is_active |-> FALSE]]
    /\ UNCHANGED resp
    /\ ProfilesUnchanged

\* handleActivateProfile, second statement: UPDATE ... SET is_active = 1
\* WHERE id = ? AND user_id = ?
ActivateSelected(c) ==
    /\ profileCalls[c].pc = "activate"
    /\ ProfileStatement([profiles EXCEPT !.rows =
           List([i \in 1..Len(profiles.rows) |->
                    IF profiles.rows[i].id = profileCalls[c].profileId
                    THEN [profiles.rows[i] EXCEPT !.is_active = TRUE]
                    ELSE profiles.rows[i]])])
    /\ profileCalls' = [profileCalls EXCEPT ![c] = IdleProfileCall]
    /\ resp' = [kind |-> "profile", status |-> 200]
    /\ UNCHANGED nEvents
    /\ ProfilesUnchanged

\* handleDeleteProfile: SELECT is_default, is_active, and the two refusals
DeleteChecks(c, id) ==
    /\ ProfileRequestStarts
    /\ profileCalls[c].pc = "idle"
    /\ IF ~HasProfile(profiles.rows, id)
       THEN /\ resp' = [kind |-> "error", status |-> 404]
            /\ UNCHANGED profileCalls
       ELSE IF ProfileOf(profiles.rows, id).is_default
       THEN /\ resp' = [kind |-> "error", status |-> 400]
            /\ UNCHANGED profileCalls
       ELSE /\ UNCHANGED resp
            /\ profileCalls' = [profileCalls EXCEPT ![c] =
                  [pc |-> "delete", profileId |-> id,
                   is_active |-> ProfileOf(profiles.rows, id).is_active]]
    /\ UNCHANGED <<profiles, settings>>
    /\ ProfilesUnchanged

\* handleDeleteProfile: DELETE FROM algorithm_profiles WHERE id = ?
DeleteRow(c) ==
    /\ profileCalls[c].pc = "delete"
    /\ ProfileStatement([profiles EXCEPT !.rows =
           SelectSeq(@, LAMBDA r : r.id # profileCalls[c].profileId)])
    /\ IF profileCalls[c].is_active
       THEN /\ profileCalls' = [profileCalls EXCEPT ![c].pc = "reactivate"]
            /\ UNCHANGED resp
       ELSE /\ profileCalls' = [profileCalls EXCEPT ![c] = IdleProfileCall]
            /\ resp' = [kind |-> "profile", status |-> 200]
    /\ UNCHANGED nEvents
    /\ ProfilesUnchanged

\* handleDeleteProfile: UPDATE ... SET is_active = 1 WHERE is_default = 1
DeleteActivatesDefault(c) ==
    /\ profileCalls[c].pc = "reactivate"
    /\ ProfileStatement([profiles EXCEPT !.rows =
           List([i \in 1..Len(profiles.rows) |->
                    IF profiles.rows[i].is_default
                    THEN [profiles.rows[i] EXCEPT !.is_active = TRUE]
                    ELSE profiles.rows[i]])])
    /\ profileCalls' = [profileCalls EXCEPT ![c] = IdleProfileCall]
    /\ resp' = [kind |-> "profile", status |-> 200]
    /\ UNCHANGED nEvents
    /\ ProfilesUnchanged

\* the user has the default profile of the migration, active
InitProfiles ==
    /\ now = 0
    /\ votes = [u \in Users |-> <<>>]
    /\ weights = [u \in Users |-> <<>>]
    /\ saved = [u \in Users |-> {}]
    /\ impressions = [u \in Users |-> [a \in ArticleIds |-> NoImpression]]
    /\ seeds = [u \in Users |-> NoSeed]
    /\ resp = NoResp
    /\ nEvents = 0
    /\ served = [u \in Users |-> {}]
    /\ profiles = [rows |-> <<ProfileRow(1, 0, TRUE, TRUE, 24, 5, 5, 10)>>,
                   legacy |-> NoSettings, lastId |-> 1]
    /\ settings = [u \in Users |-> IF u = 1 THEN SettingsRow(24, 5) ELSE NoSettings]
    /\ profileCalls = [c \in ProfileCallIds |-> IdleProfileCall]
    /\ RankIdle
    /\ feedCall = NoFeedCall
    /\ feedPc = "none"
    /\ voteCalls = <<>>
    /\ SignInIdle

SavePreferences == \E body \in SettingsBodies : handleSavePreferences(body)

CreateProfile ==
    \E name \in ProfileNames, body \in SettingsBodies :
        handleCreateProfile(name, body)

UpdateProfile ==
    \E id \in ProfileIds, body \in SettingsBodies : handleUpdateProfile(id, body)

ActivateProfile ==
    \E c \in ProfileCallIds :
        \/ \E id \in ProfileIds : ActivateDeactivatesAll(c, id)
        \/ ActivateSelected(c)

DeleteProfile ==
    \E c \in ProfileCallIds :
        \/ \E id \in ProfileIds : DeleteChecks(c, id)
        \/ DeleteRow(c)
        \/ DeleteActivatesDefault(c)

NextProfiles ==
    SavePreferences \/ CreateProfile \/ UpdateProfile \/ ActivateProfile
        \/ DeleteProfile

SpecProfiles == InitProfiles /\ [][NextProfiles]_vars

----------------------------------------------------------------------------
(* Specification of the magic-link sign-in: POST /api/auth/send-magic-link *)
(* stores a token, and verify requests run statement by statement, each    *)
(* await being a point where another request may run.  Dates are (day,     *)
(* minute of the day); the two date texts the handlers compare are tuples  *)
(* (date, separator character, time of day).                               *)

\* magic links sent in a run
MaxLinks == 1

MINUTES_PER_DAY == 1440

\* 15 * 60 * 1000 ms
LINK_LIFETIME == 15

\* minutes between two readings of the clock
TICK == 10

\* minute of day 0 at which a run starts: early in the day, and so late
\* that the link expires just before or just after midnight
StartMinutes == {0, 1420, 1430}

VerifyCallIds == {1, 2}

IdleVerifyCall == [pc |-> "idle", token |-> 0, at |-> 0, result |-> "none"]

Minutes(t) == t.day * MINUTES_PER_DAY + t.minute

ClockOf(m) == [day |-> m \div MINUTES_PER_DAY, minute |-> m % MINUTES_PER_DAY]

\* character codes of "T" and " "
CharT == 84

CharSpace == 32

\* Date.prototype.toISOString(): "YYYY-MM-DDTHH:MM:SS.sssZ"
toISOString(t) == <<t.day, CharT, t.minute>>

\* SQLite datetime('now'): "YYYY-MM-DD HH:MM:SS"
datetimeNow(t) == <<t.day, CharSpace, t.minute>>

\* a > b for two TEXT values: the first differing position decides
TextGreater(a, b) ==
    \E i \in 1..3 : a[i] > b[i] /\ \A j \in 1..(i - 1) : a[j] = b[j]

MagicLinkRow(token, expiresAt) ==
    [token |-> token, expires_at |-> expiresAt, used |-> FALSE]

\* SELECT * FROM magic_links WHERE token = ? AND used = 0
\*   AND expires_at > datetime('now')
ValidLinks(rows, token, t) ==
    {i \in 1..Len(rows) :
        /\ rows[i].token = token
        /\ ~rows[i].used
        /\ TextGreater(rows[i].expires_at, datetimeNow(t))}

\* UPDATE magic_links SET used = 1 WHERE token = ?
MarkedUsed(rows, token) ==
    List([i \in 1..Len(rows) |->
        IF rows[i].token = token THEN [rows[i] EXCEPT !.used = TRUE]
        ELSE rows[i]])

SignInUnchanged ==
    UNCHANGED <<now, votes, weights, saved, impressions, seeds, resp, served,
                settings, rankVars, feedCall, feedPc, voteCalls, profileVars>>

InitSignIn ==
    /\ SystemIdle
    /\ RankIdle
    /\ feedCall = NoFeedCall
    /\ feedPc = "none"
    /\ voteCalls = <<>>
    /\ ProfilesIdle
    /\ magicLinks = <<>>
    /\ userSessions = <<>>
    /\ verifyCalls = List([c \in VerifyCallIds |-> IdleVerifyCall])
    /\ \E m \in StartMinutes : wallClock = [day |-> 0, minute |-> m]

\* POST /api/auth/send-magic-link: the token is the number of the link
handleSendMagicLink ==
    /\ verifyCalls # <<>>
    /\ Len(magicLinks) < MaxLinks
    /\ LET expiresAt == ClockOf(Minutes(wallClock) + LINK_LIFETIME)
       IN  magicLinks' = Append(magicLinks,
                                MagicLinkRow(Len(magicLinks) + 1,
                                             toISOString(expiresAt)))
    /\ UNCHANGED <<userSessions, verifyCalls, wallClock, nEvents>>
    /\ SignInUnchanged

\* handleVerifyToken up to its first response or its second statement
VerifySelects(c, token) ==
    /\ verifyCalls # <<>>
    /\ verifyCalls[c].pc = "idle"
    /\ LET found == ValidLinks(magicLinks, token, wallClock)
       IN  verifyCalls' = [verifyCalls EXCEPT ![c] =
               IF found = {}
               THEN [pc |-> "done", token |-> token, at |-> Minutes(wallClock),
                     result |-> "Invalid or expired token"]
               ELSE [pc |-> "mark", token |-> token, at |-> Minutes(wallClock),
                     result |-> "none"]]
    /\ UNCHANGED <<magicLinks, userSessions, wallClock, nEvents>>
    /\ SignInUnchanged

VerifyMarksUsed(c) ==
    /\ verifyCalls # <<>>
    /\ verifyCalls[c].pc = "mark"
    /\ magicLinks' = MarkedUsed(magicLinks, verifyCalls[c].token)
    /\ verifyCalls' = [verifyCalls EXCEPT ![c].pc = "session"]
    /\ UNCHANGED <<userSessions, wallClock, nEvents>>
    /\ SignInUnchanged

\* the user row exists (send-magic-link created it); INSERT INTO
\* user_sessions and the success response
VerifyCreatesSession(c) ==
    /\ verifyCalls # <<>>
    /\ verifyCalls[c].pc = "session"
    /\ userSessions' = Append(userSessions,
                              [token |-> Len(userSessions) + 1,
                               link |-> verifyCalls[c].token])
    /\ verifyCalls' = [verifyCalls EXCEPT ![c].pc = "done",
                                          ![c].result = "success"]
    /\ UNCHANGED <<magicLinks, wallClock, nEvents>>
    /\ SignInUnchanged

ClockTicks ==
    /\ verifyCalls # <<>>
    /\ nEvents < MaxEvents
    /\ nEvents' = nEvents + 1
    /\ wallClock' = ClockOf(Minutes(wallClock) + TICK)
    /\ UNCHANGED <<magicLinks, userSessions, verifyCalls>>
    /\ SignInUnchanged

VerifyStarts ==
    \E c \in VerifyCallIds, token \in 1..MaxLinks : VerifySelects(c, token)

VerifyMarks == \E c \in VerifyCallIds : VerifyMarksUsed(c)

VerifySucceeds == \E c \in VerifyCallIds : VerifyCreatesSession(c)

NextSignIn ==
    handleSendMagicLink \/ VerifyStarts \/ VerifyMarks \/ VerifySucceeds \/ ClockTicks

SpecSignIn == InitSignIn /\ [][NextSignIn]_vars

----------------------------------------------------------------------------
(* Properties                                                              *)

\* ids of the articles of the feed response just sent
FeedIds ==
    IF resp.kind = "feed"
    THEN {resp.articles[i].id : i \in 1..Len(resp.articles)}
    ELSE {}

\* the user's current vote on article a is v
CurrentVote(u, a, v) ==
    \E i \in 1..Len(votes[u]) :
        votes[u][i].article_id = a /\ votes[u][i].vote = v

\* the weight in force for every category and source that has articles
EffectiveWeights(rows) ==
    LET w == interestWeightsToScoringWeights(rows)
    IN  [categories |-> [c \in 1..3 |-> WeightOr1(w.categories, c)],
         sources |-> [s \in 1..4 |-> WeightOr1(w.sources, s)]]

\* C1: an article whose current vote by the user is -1 is in no feed
\* response for that user, in any phase, with or without a category filter
\* and on any page.
C1_DownvotedNeverServed ==
    resp.kind = "feed" =>
        \A a \in FeedIds : ~CurrentVote(resp.userId, a, 0 - 1)

\* a non-empty adoption feed of category 1 for a user who has downvoted
\* article 1, a recent article of that category
C1_Witness ==
    /\ resp.kind = "feed" /\ resp.userId = 1
    /\ resp.phase = "ADOPTION" /\ resp.category = 1
    /\ CurrentVote(1, 1, 0 - 1)
    /\ Article(1).published_at > 60 * (now - 168)
    /\ FeedIds # {}

\* C2: once a feed request of an authenticated user has been served with
\* the ADOPTION phase, no later feed request of that user is served with
\* the ONBOARDING phase.
C2_AdoptionTerminal ==
    (resp.kind = "feed" /\ resp.userId # 0
        /\ "ADOPTION" \in served[resp.userId])
    => resp.phase # "ONBOARDING"

C4_WeightsInRange ==
    \A u \in Users : \A i \in 1..Len(weights[u]) :
        weights[u][i].weight >= 1 /\ weights[u][i].weight <= 20

\* an upvote has just been applied to a category whose weight was already
\* 2.0: the row written before and the row written now both hold 2.0
C4_Witness ==
    /\ resp.kind = "vote" /\ resp.vote = 1
    /\ \E i, j \in 1..Len(weights[1]) :
          /\ i < j
          /\ weights[1][i].category_id # 0
          /\ weights[1][i].category_id = weights[1][j].category_id
          /\ weights[1][i].category_id = Article(resp.articleId).category_id
          /\ weights[1][i].weight = 20 /\ weights[1][j].weight = 20

\* C5: for a user whose weights were written by votes only, the backfill
\* (reset and replay of the stored votes) leaves every category and source
\* weight as the incremental updates had left it.
C5_BackfillEqualsIncremental ==
    [][(resp'.kind = "backfill" /\ resp'.votesProcessed > 0
          /\ saved[resp'.userId] = {} /\ seeds[resp'.userId] = NoSeed)
       => EffectiveWeights(weights'[resp'.userId])
            = EffectiveWeights(weights[resp'.userId])]_vars

\* C6: a vote request with value 0 leaves every category weight and every
\* source weight of the user as it was.
C6_UnvoteKeepsWeights ==
    [][(resp'.kind = "vote" /\ resp'.vote = 0)
       => EffectiveWeights(weights'[resp'.userId])
            = EffectiveWeights(weights[resp'.userId])]_vars

\* C7: a save request changes neither the number of vote rows the phase
\* selector counts nor the phase it selects.
C7_SaveKeepsVoteCount ==
    [][resp'.kind = "save"
       => /\ Len(votes'[resp'.userId]) = Len(votes[resp'.userId])
          /\ SelectedPhase(resp'.userId, Len(votes'[resp'.userId]))
               = SelectedPhase(resp'.userId, Len(votes[resp'.userId]))]_vars

\* C8: an article with at least two impressions, the last one less than 7
\* days (168 hours) ago, and without a vote of the user is in no feed
\* response for that user.
C8_SeenTwiceNeverServed ==
    resp.kind = "feed" =>
        \A a \in FeedIds :
            ~(/\ impressions[resp.userId][a].count >= 2
              /\ impressions[resp.userId][a].last > now - 168
              /\ ~HasVoteRow(votes[resp.userId], a))

\* a non-empty unfiltered feed for user 1 while article 1, recent and
\* without a vote, has been shown twice within the window
C8_Witness ==
    /\ resp.kind = "feed" /\ resp.userId = 1 /\ resp.category = 0
    /\ impressions[1][1].count >= 2
    /\ impressions[1][1].last > now - 168
    /\ ~HasVoteRow(votes[1], 1)
    /\ Article(1).published_at > 60 * (now - 168)
    /\ FeedIds # {}

\* the results at positions lo..hi have pairwise distinct categories
DistinctCategories(s, lo, hi) ==
    \A i, j \in lo..hi : i # j => s[i].category_id # s[j].category_id

PoolCategories == CategoriesOf(pool)

\* the first min(6, k) results exist and have pairwise distinct categories,
\* k being the number of categories of the pool
ForcedRotationHolds ==
    LET k == Min2(6, Cardinality(PoolCategories))
    IN  Len(ranked) >= k /\ DistinctCategories(ranked, 1, k)

\* C9 as stated: under every reranker variant the first min(6, k) results
\* of a pool with k categories have pairwise distinct categories.
C9_FirstSixDistinctAllVariants ==
    params.variant # "none" => ForcedRotationHolds

\* C9: under the onboarding and adoption rerankers the first min(6, k)
\* results of a pool with k categories have pairwise distinct categories;
\* under the seeded reranker the first m = min(3, articles of the seed
\* category) results are of the seed category and the next
\* min(6 - m, other categories) results have pairwise distinct categories,
\* none of them the seed category.
C9_FirstSixDistinct ==
    /\ params.variant \in {"onboarding", "adoption"} => ForcedRotationHolds
    /\ params.variant = "seeded" =>
          LET seedCat == params.seed.category_id
              m == Min2(3, Cardinality({i \in 1..Len(pool) :
                                          pool[i].category_id = seedCat}))
              k == Min2(6 - m, Cardinality(PoolCategories \ {seedCat}))
          IN  /\ Len(ranked) >= m + k
              /\ \A i \in 1..m : ranked[i].category_id = seedCat
              /\ \A i \in (m + 1)..(m + k) : ranked[i].category_id # seedCat
              /\ DistinctCategories(ranked, m + 1, m + k)

\* a seeded ranking of a pool with six categories, two of whose articles
\* are of the seed category: both come first
C9_Witness ==
    /\ params.variant = "seeded"
    /\ Cardinality(PoolCategories) = 6
    /\ Cardinality({i \in 1..Len(pool) :
                       pool[i].category_id = params.seed.category_id}) = 2
    /\ ranked[1].category_id = params.seed.category_id
    /\ ranked[2].category_id = params.seed.category_id

\* C10: the normalizer returns the articles of its input, in the same
\* order and with the same raw scores and other fields; it only adds
\* adjustedScore.
C10_NormalizeKeepsRanking ==
    params.done =>
        /\ Len(normalized) = Len(ranked)
        /\ \A i \in 1..Len(ranked) :
              /\ DOMAIN normalized[i] = (DOMAIN ranked[i]) \cup {"adjustedScore"}
              /\ \A f \in DOMAIN ranked[i] : normalized[i][f] = ranked[i][f]

\* a normalized list that is not in descending order of adjusted score:
\* the reranker had moved a lower score ahead of a higher one
C10_Witness ==
    /\ params.done /\ Len(ranked) >= 2
    /\ \E i, j \in 1..Len(normalized) :
          i < j /\ normalized[i].adjustedScore < normalized[j].adjustedScore

\* C11: for every non-empty batch in which all raw scores are equal, the
\* normalizer assigns the target mean 50 as adjustedScore to every article.
C11_EqualScoresGetTargetMean ==
    (/\ params.done
     /\ Len(ranked) > 0
     /\ \A i \in 1..Len(ranked) : ranked[i].score = ranked[1].score)
        => \A i \in 1..Len(normalized) :
               normalized[i].adjustedScore = TARGET_MEAN

RECURSIVE SumAdjusted(_)
SumAdjusted(s) ==
    IF Len(s) = 0 THEN 0 ELSE Head(s).adjustedScore + SumAdjusted(Tail(s))

RECURSIVE SumAdjustedSquares(_)
SumAdjustedSquares(s) ==
    IF Len(s) = 0 THEN 0
    ELSE Head(s).adjustedScore * Head(s).adjustedScore
           + SumAdjustedSquares(Tail(s))

\* |mean of the adjusted scores - 50| <= 1/2
AdjustedMeanOnTarget(s) ==
    2 * Abs(SumAdjusted(s) - TARGET_MEAN * Len(s)) <= Len(s)

\* 19.5 <= population standard deviation of the adjusted scores <= 20.5
AdjustedSpreadOnTarget(s) ==
    LET n == Len(s)
        d == n * SumAdjustedSquares(s) - SumAdjusted(s) * SumAdjusted(s)
    IN  /\ (2 * TARGET_STDDEV - 1) * (2 * TARGET_STDDEV - 1) * n * n <= 4 * d
        /\ 4 * d <= (2 * TARGET_STDDEV + 1) * (2 * TARGET_STDDEV + 1) * n * n

\* C12: for any non-empty batch the adjusted scores have mean 50 up to
\* rounding and, when the raw scores are not all equal, population standard
\* deviation 20 up to rounding.
C12_AdjustedMeanAndSpread ==
    (params.done /\ Len(normalized) > 0)
        => /\ AdjustedMeanOnTarget(normalized)
           /\ (\E i \in 1..Len(ranked) : ranked[i].score # ranked[1].score)
                  => AdjustedSpreadOnTarget(normalized)

\* the content scores pool articles carry
ContentScoreChoices == {PoolContentScore(a) : a \in 1..5}

\* C13: of two adoption candidates equal in every scoring input except the
\* content score, the one with the higher content score gets the higher raw
\* score.  The second candidate is a ranked article with its content score
\* replaced by a higher one.
C13_AdoptionAddsContentTerm ==
    (params.variant = "adoption")
        => \A i \in 1..Len(ranked) : \A c \in ContentScoreChoices :
               c > ranked[i].contentScore
                   => calculateAdoptionScore(
                          [ranked[i] EXCEPT !.contentScore = c],
                          params.recencyDecayHours, {}, {}, params.weights,
                          params.t) > ranked[i].score

\* 100 x max(0.1, 1 - hoursOld / recencyDecayHours) x breakingNewsMultiplier
\* x categoryWeight x sourceWeight, in units of 1 / (60000 x recencyDecayHours)
AdoptionBaseScore(article, decayHours, w, t) ==
    LET old == hoursOld(article, t)
        recency == Max2(6 * decayHours, 60 * decayHours - old)
        breaking == IF old < 2 * 60
                    THEN (IF article.source_id = HIGH_VOLUME_SOURCE
                          THEN 14 ELSE 18)
                    ELSE 10
    IN  100 * recency * breaking
            * WeightOr1(w.categories, article.category_id)
            * WeightOr1(w.sources, article.source_id)

\* base x 0.96 x 0.98 <= score <= base x 1.04 x 1.02, up to the rounding of
\* the score to hundredths: the score is the base score times the two
\* tie-break variations and nothing else
WithinTieBreakBand(score, base, decayHours) ==
    LET lhs == WideShift(WideMulSmall(WideFromInt(score * 60 * decayHours), 1000))
        half == WideMulSmall(WideFromInt(60 * decayHours * 5000), 1000)
        lo == WideMulSmall(WideMulSmall(WideFromInt(base), 9408), 100)
        hi == WideMulSmall(WideMulSmall(WideFromInt(base), 10608), 100)
    IN  /\ WideLeq(lo, WideAdd(lhs, half))
        /\ WideLeq(lhs, WideAdd(hi, half))

\* C14: the adoption raw score before the tie-break perturbation is
\* 100 x max(0.1, 1 - hoursOld/recencyDecayHours) x breakingNewsMultiplier
\* x categoryWeight x sourceWeight, with no other factor (the pool articles
\* are taken without their content term).
C14_AdoptionScoreFormula ==
    (params.variant = "adoption")
        => \A i \in 1..Len(ranked) :
               WithinTieBreakBand(ranked[i].score,
                   AdoptionBaseScore(ranked[i], params.recencyDecayHours,
                                     params.weights, params.t),
                   params.recencyDecayHours)

\* C15: for every strength s (clamped to [0, 1]) and every candidate, liked
\* and disliked vectors, the content score lies within
\* [-(10 + 90 s), +(10 + 90 s)], hence within [-100, +100].
C15_ContentScoreBounded ==
    (params.variant = "content" /\ params.done)
        => LET s == clamp(params.strengthMultiplier, 0, 10)
           IN  /\ Abs(params.score) <= 100 * (10 + 9 * s)
               /\ Abs(params.score) <= 10000

\* C16: two onboarding-phase requests over the same candidates at the same
\* time, for users that differ only in their stored interest weights, get
\* the same articles in the same order with the same raw scores: the
\* ranking served is the ranking under any other weights.
C16_OnboardingIgnoresWeights ==
    (params.variant \in {"onboarding", "seeded"})
        => \A w \in WeightChoices :
               PhaseRanking("ONBOARDING", params.seed, pool,
                            params.recencyDecayHours, w, params.t) = ranked

\* an onboarding ranking of several articles for a user whose weight rows
\* cover a category and a source of the pool
C16_Witness ==
    /\ params.variant \in {"onboarding", "seeded"}
    /\ params.weights # EmptyWeights
    /\ Len(ranked) >= 3
    /\ \E i \in 1..Len(ranked) :
          /\ ranked[i].category_id \in DOMAIN params.weights.categories
          /\ ranked[i].source_id \in DOMAIN params.weights.sources

RaceDone ==
    /\ voteCalls # <<>>
    /\ \A p \in VoteCallIds : voteCalls[p].pc = "done"

\* the weights in force after request p alone, and after request p and
\* then request q, each run as one step from the rows the first arrival
\* found
WeightsAfterOne(p) ==
    LET first == CHOOSE x \in VoteCallIds : voteCalls[x].order = 1
    IN  EffectiveWeights(WeightsAfterVote(voteCalls[first].startRows,
            voteCalls[p].articleId, voteCalls[p].vote))

WeightsAfterBoth(p, q) ==
    LET first == CHOOSE x \in VoteCallIds : voteCalls[x].order = 1
    IN  EffectiveWeights(
            WeightsAfterVote(
                WeightsAfterVote(voteCalls[first].startRows,
                    voteCalls[p].articleId, voteCalls[p].vote),
                voteCalls[q].articleId, voteCalls[q].vote))

\* C17: the vote path is a non-atomic read-modify-write of the weight store.
\* With the two requests run one after the other the final weights reflect
\* both adjustments; in any interleaving every final weight is the result
\* of both adjustments or of one of them alone (a lost update, which the
\* witness shows to be reachable).
C17_VoteRaceOutcomes ==
    RaceDone =>
        LET final == EffectiveWeights(weights[1])
            first == CHOOSE x \in VoteCallIds : voteCalls[x].order = 1
        IN  /\ (~voteCalls[1].overlapped /\ ~voteCalls[2].overlapped)
                  => final = WeightsAfterBoth(first, 3 - first)
            /\ \A c \in 1..3 :
                  final.categories[c] \in
                      {WeightsAfterBoth(1, 2).categories[c],
                       WeightsAfterBoth(2, 1).categories[c],
                       WeightsAfterOne(1).categories[c],
                       WeightsAfterOne(2).categories[c]}
            /\ \A k \in 1..4 :
                  final.sources[k] \in
                      {WeightsAfterBoth(1, 2).sources[k],
                       WeightsAfterBoth(2, 1).sources[k],
                       WeightsAfterOne(1).sources[k],
                       WeightsAfterOne(2).sources[k]}

\* a lost update: both requests voted on articles of one category, both
\* have answered, and the category weight in force is that of neither
\* order of the two adjustments
C17_Witness ==
    /\ RaceDone
    /\ Article(voteCalls[1].articleId).category_id
          = Article(voteCalls[2].articleId).category_id
    /\ LET c == Article(voteCalls[1].articleId).category_id
           final == EffectiveWeights(weights[1])
       IN  /\ final.categories[c] # WeightsAfterBoth(1, 2).categories[c]
           /\ final.categories[c] # WeightsAfterBoth(2, 1).categories[c]

FeedCallDone == feedPc = "done"

\* the page handleGetFeed would send for the request in feedCall if the
\* settings row held `decayHours` and the weight table held `w`
PageWith(decayHours, w) ==
    LET userId == feedCall.userId
        articles == WithContentScores(userId, feedCall.rows,
                        [liked |-> feedCall.liked,
                         disliked |-> feedCall.disliked,
                         candidates |-> feedCall.candidates])
        rankedArticles ==
            PhaseRanking(SelectedPhase(userId, Len(votes[userId])),
                         seeds[userId], articles, decayHours, w, now)
        topArticles == Slice(normalizeScoresToBellCurve(rankedArticles),
                             feedCall.offset, feedCall.offset + feedCall.limit)
    IN  List([i \in 1..Len(topArticles) |-> Enriched(topArticles[i])])

\* C18: missing data degrades and never fails.  A candidate without a
\* stored vector, or whose lookup returned nothing, or any lookup that
\* raised an error, gives content score 0, and the response is still a
\* successful feed over all the candidates; without a settings row the
\* recency decay is 24 hours, and a category or source without a weight row
\* counts with weight 1.0.
C18_MissingDataDegrades ==
    FeedCallDone =>
        LET userId == feedCall.userId
            stored == settings[userId]
            decayHours == IF stored.exists /\ stored.recency_decay_hours # 0
                          THEN stored.recency_decay_hours
                          ELSE 24
        IN  /\ resp.kind = "feed"
            /\ resp.total = Len(feedCall.rows)
            /\ Len(resp.articles)
                 = Min2(feedCall.limit, Max2(0, resp.total - feedCall.offset))
            /\ (feedCall.offset = 0 /\ feedCall.limit >= resp.total)
                 => {resp.articles[i].id : i \in 1..Len(resp.articles)}
                      = {feedCall.rows[i].id : i \in 1..Len(feedCall.rows)}
            /\ \A i \in 1..Len(resp.articles) :
                 (\/ StoredVector(resp.articles[i].id) = NoVector
                  \/ feedCall.caught
                  \/ "candidates" \in feedCall.nothing)
                     => resp.articles[i].contentScore = 0
            /\ resp.articles
                 = PageWith(decayHours, EffectiveWeights(weights[userId]))

\* an adoption request of a user without a settings row, answered with a
\* non-empty page although a lookup raised an error, one candidate of the
\* page being of a category that has no weight row
C18_Witness ==
    /\ FeedCallDone
    /\ feedCall.caught
    /\ ~settings[feedCall.userId].exists
    /\ resp.phase = "ADOPTION"
    /\ \E i \in 1..Len(feedCall.rows) :
          /\ feedCall.rows[i].category_id
               \notin DOMAIN interestWeightsToScoringWeights(
                                 weights[feedCall.userId]).categories
          /\ \E j \in 1..Len(resp.articles) :
                resp.articles[j].id = feedCall.rows[i].id

\* C19: the feed request never blocks on the embedding provider: with its
\* own steps scheduled fairly, every request is eventually answered, also
\* when a lookup of the provider never completes.
C19_FeedEventuallyAnswered == <>FeedCallDone

\* C20: when the candidate query returns no row, the response is a
\* successful feed with an empty article list and hasMore = false, in every
\* phase, with or without seed, for every offset and limit (0 included).
C20_EmptyCandidateSet ==
    (FeedCallDone /\ Len(feedCall.rows) = 0) =>
        /\ resp.kind = "feed"
        /\ resp.articles = <<>>
        /\ resp.total = 0
        /\ resp.hasMore = FALSE

\* a seeded onboarding request for a page of limit 0, long after the last
\* article was published
C20_Witness ==
    /\ FeedCallDone
    /\ Len(feedCall.rows) = 0
    /\ resp.kind = "feed"
    /\ resp.phase = "ONBOARDING"
    /\ seeds[feedCall.userId] # NoSeed
    /\ feedCall.limit = 0

ProfilesQuiet ==
    /\ profileCalls # <<>>
    /\ \A c \in ProfileCallIds : profileCalls[c].pc = "idle"

\* C21: whenever no profile request is in progress, the user has exactly
\* one profile with is_active = 1.
C21_ExactlyOneActiveProfile ==
    ProfilesQuiet => Len(ActiveRows(profiles.rows)) = 1

\* C22: the settings row that the feed request reads holds a recency decay
\* of 12, 24, 48 or 72 hours, a source diversity multiplier and a similarity
\* strength in [0, 1] and an exploration factor in [0, 0.5].
C22_StoredSettingsInRange ==
    (profileCalls # <<>> /\ StoredSettings(profiles).exists) =>
        LET row == StoredSettings(profiles)
        IN  /\ row.recency_decay_hours \in VALID_DECAY_HOURS
            /\ row.source_diversity_multiplier \in 0..10
            /\ row.dynamic_similarity_strength \in 0..10
            /\ row.exploration_factor \in 0..50

\* number of results placed by the phases that come before the balanced
\* fill: six slots of distinct categories, or the seed category first and
\* one article of each other category
ForcedPrefixLength ==
    IF params.variant = "seeded"
    THEN LET seedCat == params.seed.category_id
             m == Min2(3, Cardinality({i \in 1..Len(pool) :
                                         pool[i].category_id = seedCat}))
         IN  m + Min2(6 - m, Cardinality(PoolCategories \ {seedCat}))
    ELSE Min2(6, Cardinality(PoolCategories))

\* occupancy of category c among the results before position k
SelectedBefore(k, c) ==
    Cardinality({i \in 1..(k - 1) : ranked[i].category_id = c})

\* result k is a highest-scoring one among the remaining candidates whose
\* category occupancy is at most m + 1, m being the least occupancy over
\* the categories of the remaining candidates
BalancedPickAt(k) ==
    LET rest == k..Len(ranked)
        occupancy(i) == SelectedBefore(k, ranked[i].category_id)
        m == CHOOSE x \in {occupancy(i) : i \in rest} :
                 \A i \in rest : x <= occupancy(i)
        eligible == {i \in rest : occupancy(i) <= m + 1}
    IN  /\ k \in eligible
        /\ \A i \in eligible : ranked[i].score <= ranked[k].score

\* C23: in the balanced fill of the onboarding and seeded rerankers every
\* pick is the highest-scoring remaining candidate among those whose
\* category occupancy is at most m + 1, where m is the least occupancy over
\* the categories still present in the remaining pool.
C23_BalancedFillPicks ==
    params.variant \in {"onboarding", "seeded"} =>
        \A k \in (ForcedPrefixLength + 1)..Len(ranked) : BalancedPickAt(k)

\* C24: in PHASE 2 of the adoption reranker every pick is taken from the
\* first min(20, pool size) entries of the remaining score-sorted pool and
\* is the earliest entry of greatest rawScore x max(0.7, 1 - 0.05 x c) among
\* them, c being the number of already selected articles (PHASE 1 picks
\* included) of the entry's source; the pick moves from the pool to the end
\* of the selection, so its source counts one more.
SelectedOfSource(diverse, sourceId) ==
    Cardinality({j \in 1..Len(diverse) : diverse[j].source_id = sourceId})

\* rawScore x max(0.7, 1 - 0.05 x c), in units 1/10000
DiminishedScore(diverse, articlePool, i) ==
    articlePool[i].score
      * Max2(70, 100 - 5 * SelectedOfSource(diverse, articlePool[i].source_id))

PickedInWindow(diverse, articlePool, b) ==
    LET window == 1..Min2(20, Len(articlePool))
    IN  /\ b \in window
        /\ \A i \in window :
              \/ DiminishedScore(diverse, articlePool, i)
                    < DiminishedScore(diverse, articlePool, b)
              \/ /\ DiminishedScore(diverse, articlePool, i)
                       = DiminishedScore(diverse, articlePool, b)
                 /\ b <= i

InputIds == {params.articles[i].id : i \in 1..Len(params.articles)}

LoopEnded == params.done \/ Len(pool) = 0 \/ Len(ranked) >= OUTPUT_CAP

DuplicateFree(s) == \A i \in 1..Len(s) : \A j \in 1..Len(s) : s[i].id = s[j].id => i = j

C25_RerankersReturnMinOfInputAnd100 ==
    params.variant = "pick" =>
        /\ ~params.done
        /\ DuplicateFree(ranked \o pool)
        /\ {(ranked \o pool)[i].id : i \in 1..(Len(ranked) + Len(pool))} = InputIds
        /\ Len(ranked) <= OUTPUT_CAP
        /\ LoopEnded =>
              /\ Len(ranked) = Min2(Len(params.articles), 100)
              /\ {ranked[i].id : i \in 1..Len(ranked)} \subseteq InputIds

\* a loop that ended at the cap with candidates left in the pool
C25_Witness ==
    /\ params.variant = "pick"
    /\ params.reranker = "seeded"
    /\ LoopEnded
    /\ Len(params.articles) > 100
    /\ Len(ranked) = 100
    /\ Len(pool) > 0

\* C26: updateWeights returns weights that differ from its input only at
\* the voted article's category and source: each of the two is the input
\* weight (1.0 when missing) plus 0.1 for a vote of +1 and minus 0.1 for a
\* vote of -1, clamped to [0.1, 2.0]; every other key has its input weight;
\* and the input object still holds the weights it was called with.
ExpectedWeight(obj, key, vote) ==
    LET old == IF key \in DOMAIN obj THEN obj[key] ELSE 10
        sum == IF vote = 1 THEN old + 1 ELSE old - 1
    IN  IF sum < 1 THEN 1 ELSE IF sum > 20 THEN 20 ELSE sum

OnlyKeyChanged(before, after, key, vote) ==
    /\ DOMAIN after = DOMAIN before \cup {key}
    /\ after[key] = ExpectedWeight(before, key, vote)
    /\ \A k \in DOMAIN before : k # key => after[k] = before[k]

C26_UpdateWeightsFrame ==
    (params.variant = "weights" /\ params.done) =>
        LET result == Deref(params.heap, params.newWeights)
        IN  /\ OnlyKeyChanged(params.given.categories, result.categories,
                              params.article.category_id, params.vote)
            /\ OnlyKeyChanged(params.given.sources, result.sources,
                              params.article.source_id, params.vote)
            /\ Deref(params.heap, params.currentWeights) = params.given

\* a vote of +1 on an article whose category has no weight yet and whose
\* source is at the upper bound, with another category and another source
\* weighted
C26_Witness ==
    /\ params.variant = "weights"
    /\ params.done
    /\ params.vote = 1
    /\ params.article.category_id \notin DOMAIN params.given.categories
    /\ DOMAIN params.given.categories # {}
    /\ params.article.source_id \in DOMAIN params.given.sources
    /\ params.given.sources[params.article.source_id] = 20
    /\ Cardinality(DOMAIN params.given.sources) = 2
    /\ Deref(params.heap, params.newWeights).categories[params.article.category_id] = 11
    /\ Deref(params.heap, params.newWeights).sources[params.article.source_id] = 20

\* C27: the votes table holds at most one row per (user, article) and no
\* row of value 0; a POST /api/vote of value +1 or -1 leaves the article's
\* single row with that value, one of value 0 leaves no row for it, the rows
\* of other articles and users stay as they were, and a vote on an article
\* that already had a row does not add a row; the voteCount of a feed
\* response is the number of distinct articles with a non-zero vote of the
\* user.
VotesOn(rows, a) == {i \in 1..Len(rows) : rows[i].article_id = a}

VotedArticleIds(rows) ==
    {rows[i].article_id : i \in {j \in 1..Len(rows) : rows[j].vote # 0}}

VoteStoreInvariant ==
    /\ \A u \in Users : \A i \in 1..Len(votes[u]) :
          /\ VotesOn(votes[u], votes[u][i].article_id) = {i}
          /\ votes[u][i].vote \in {0 - 1, 1}
    /\ resp.kind \in {"feed", "error"} =>
          resp.voteCount = Cardinality(VotedArticleIds(votes[resp.userId]))

VoteRecorded ==
    (resp'.kind = "vote" /\ nEvents' = nEvents + 1) =>
        LET u == resp'.userId
            a == resp'.articleId
            v == resp'.vote
        IN  /\ v = 0 => VotesOn(votes'[u], a) = {}
            /\ v # 0 => \E i \in 1..Len(votes'[u]) :
                           /\ VotesOn(votes'[u], a) = {i}
                           /\ votes'[u][i].vote = v
            /\ \A b \in VotedArticleIds(votes[u]) \cup VotedArticleIds(votes'[u]) :
                  b # a => {votes'[u][i] : i \in VotesOn(votes'[u], b)}
                             = {votes[u][i] : i \in VotesOn(votes[u], b)}
            /\ \A o \in Users \ {u} : votes'[o] = votes[o]
            /\ VotesOn(votes[u], a) # {} => Len(votes'[u]) <= Len(votes[u])

C27_VoteStore == [](VoteStoreInvariant) /\ [][VoteRecorded]_vars

\* the user who had voted on ten articles, article 2 among them, has voted
\* -1 on article 2: still ten rows, the row of article 2 holding -1
C27_Witness ==
    /\ nEvents = 1
    /\ resp.kind = "vote"
    /\ resp.articleId = 2
    /\ resp.vote = 0 - 1
    /\ Len(votes[1]) = 10
    /\ Len(weights[1]) = Len(TenVotes.weights) + 2
    /\ \E i \in 1..10 : votes[1][i] = VoteRow(2, 0 - 1)

\* C28: in the output of the onboarding (and logged-out) reranker, every
\* prefix after which each category of the candidates still has an
\* unselected candidate holds numbers of articles of any two of these
\* categories that differ by at most 2.
InputCategories ==
    {params.articles[i].category_id : i \in 1..Len(params.articles)}

PrefixCount(k, c) == Cardinality({i \in 1..k : ranked[i].category_id = c})

\* the categories that have a candidate outside the first k selected ones
UnselectedCategories(k) ==
    {ranked[i].category_id : i \in (k + 1)..Len(ranked)}
        \cup {pool[i].category_id : i \in 1..Len(pool)}

BalancedPrefix(k) ==
    \A c \in InputCategories : \A d \in InputCategories :
        PrefixCount(k, c) - PrefixCount(k, d) <= 2

C28_CategoryBalance ==
    (params.variant = "pick" /\ params.reranker = "onboarding") =>
        \A k \in 0..Len(ranked) :
            UnselectedCategories(k) = InputCategories => BalancedPrefix(k)

\* a selection with two articles more of one category than of another while
\* every category still has a candidate in the pool
C28_Witness ==
    /\ params.variant = "pick"
    /\ params.reranker = "onboarding"
    /\ UnselectedCategories(Len(ranked)) = InputCategories
    /\ \E c \in InputCategories : \E d \in InputCategories :
          PrefixCount(Len(ranked), c) - PrefixCount(Len(ranked), d) = 2

\* C29: the interest_weights rows of a user hold at most one row per
\* category (source NULL) and at most one row per source (category NULL),
\* and after a vote the weight read for the voted article's category and
\* source is the one this vote wrote.
RowsOfKey(rows, cat, src) ==
    {i \in 1..Len(rows) : rows[i].category_id = cat /\ rows[i].source_id = src}

C29_WeightKeyUniqueness ==
    /\ \A u \in Users : \A i \in 1..Len(weights[u]) :
          RowsOfKey(weights[u], weights[u][i].category_id,
                    weights[u][i].source_id) = {i}
    /\ resp.kind = "vote" =>
          LET rows == weights[resp.userId]
              read == interestWeightsToScoringWeights(rows)
              article == Article(resp.articleId)
          IN  /\ read.categories[article.category_id] = rows[Len(rows) - 1].weight
              /\ read.sources[article.source_id] = rows[Len(rows)].weight

\* C30: a magic-link token signs in at most once: at most one verification
\* of a token succeeds and creates a session, and a verification that
\* starts after a successful one of the same token, or after the token's
\* expiry, is rejected with "Invalid or expired token" and creates no
\* session, also when two verifications of the token overlap.
LinkExpiry(token) ==
    LET row == magicLinks[token].expires_at
    IN  row[1] * MINUTES_PER_DAY + row[3]

Accepted(c) == verifyCalls[c].pc \in {"mark", "session"} \/ verifyCalls[c].result = "success"

C30_TokenSingleUse ==
    verifyCalls # <<>> =>
        /\ \A token \in 1..Len(magicLinks) :
              /\ Cardinality({c \in VerifyCallIds :
                                 verifyCalls[c].token = token /\ Accepted(c)}) <= 1
              /\ Cardinality({i \in 1..Len(userSessions) :
                                 userSessions[i].link = token}) <= 1
        /\ \A c \in VerifyCallIds :
              (verifyCalls[c].pc # "idle" /\ verifyCalls[c].token \in 1..Len(magicLinks)
                  /\ verifyCalls[c].at > LinkExpiry(verifyCalls[c].token))
                => verifyCalls[c].result = "Invalid or expired token"

====
